---- MODULE Spec2Model ----
(***************************************************************************)
(* A model of the tokenlock trading front end: the event bus               *)
(* (src/events.py), the streaming protocol client (src/stream.py) and the  *)
(* credential lifecycle engine (src/tokenx.py), wired as in src/trade.py.  *)
(*                                                                         *)
(* The program is a single asyncio event loop.  A coroutine runs without   *)
(* interruption from one await that suspends to the next, so one action of *)
(* the model is one such run of one task.                                  *)
(*                                                                         *)
(* Specifications:                                                         *)
(*   SpecBus     EventBus.subscribe / unsubscribe / publish                *)
(*   SpecQuote   the level-one quote cache of DataStream                   *)
(*   SpecToken   TokenEngine: code acquisition, token exchange, refresh    *)
(*   SpecStream  DataStream: sockets, reconnect, login and subscriptions   *)
(*   SpecExport  TokenEngine with the HTTP exporter of the access token    *)
(*   SpecRecv    DataStream: the receive loop of an open session           *)
(*   SpecOrder   EventBus: the order of handler calls and task starts      *)
(*   SpecMerge   DataStream: level-one entries merged and published        *)
(*   SpecReconn  DataStream: reconnects with the time of each close        *)
(*   SpecBudget  TokenEngine: the expiry budget and the refresh sleeps     *)
(*   SpecCodes   TokenEngine: the code loop and the codes that failed      *)
(*   SpecFill    DataStream: the account-activity decode                   *)
(***************************************************************************)
EXTENDS Integers, Sequences, FiniteSets, TLC

VARIABLES
    \* ---- EventBus (src/events.py)
    subscribers,    \* EventBus.subscribers: event kind -> list of handlers
    tasks,          \* handler tasks made by asyncio.create_task, not yet started
    nPub,           \* number of publish calls so far (the event's identity)
    lastCall,       \* what the last EventBus call did (observation only)
    busLog,         \* the kind of each event published and, in order, every handler
                    \* invocation and task start (observation only)
    \* ---- DataStream quote cache (src/stream.py)
    levelone_cache, \* DataStream.levelone_cache: symbol -> merged quote record
    inbox,          \* the level-one entry received and not yet parsed (at most one)
    lastParsed,     \* what parse_levelone_equities_entry returned last
    mEntries,       \* the level-one entries the receive loop has handled, in order
    mEvents,        \* the data of the MarketEvents it has published, in order
    \* ---- TokenEngine (src/tokenx.py)
    access_token,   \* TokenEngine.access_token (0: None)
    refresh_token,  \* TokenEngine.refresh_token (0: None)
    token_expires_in, \* TokenEngine.token_expires_in, tenths of a second (NoBudget: None)
    token_ready,    \* TokenEngine.token_ready is set
    authPc,         \* where get_auth_code stands
    retry_count,    \* get_auth_code: retry_count
    retry_delay,    \* get_auth_code: retry_delay, in 1/128 s
    prev_auth_code, \* get_auth_code: prev_auth_code (0: None)
    refreshPc,      \* where async_refresh_token stands
    published,      \* the TokenEvents published so far, oldest first
    lastOk,         \* the last token response that passed validation (observation)
    lastMsg,        \* what the last relay message led to (observation)
    lastErr,        \* what ended the last try of get_auth_code, until the next try
    failed_attempts, \* failed connection attempts since the last connection (observation)
    sleepFor,       \* how long the refresh loop's current sleep lasts (observation)
    failedCodes,    \* the codes whose token exchange has failed (observation)
    reqPc,          \* per GET / request of the token exporter: where its handler stands
    reqAnswer,      \* the last answer of the exporter (observation)
    \* ---- DataStream sessions (src/stream.py)
    ds_access_token, \* DataStream.access_token (0: None)
    streamer_config, \* DataStream.streamer_config: the token it was fetched with (0: None)
    ws,             \* DataStream.ws: a socket (0: None)
    recv_task,      \* DataStream.recv_task: a receive task (0: None)
    connected,      \* DataStream.connected is set
    sock,           \* the sockets websockets.connect has returned, and their state
    sockLog,        \* per socket: the frames sent on it and the login ack, in order
    connPc,         \* per connect_streamer task: where it stands
    connUrl,        \* per connect_streamer task: the configuration whose URL it dials
    recvPc,         \* per recv_streamer task: where it stands
    subPc,          \* per subscription task: where it stands
    nEv,            \* TokenEvents delivered to DataStream so far
    onTokPc,        \* per on_token_event task: how it ended
    rxFrames,       \* the frames the receive loop has read, in order
    rxPublished,    \* the events the receive loop has published, with their frame
    closedAt,       \* per socket: the TokenEvents delivered when its close completed
    lastFill        \* the last account-activity entry decoded and the FillEvents it gave

busVars == <<subscribers, tasks, nPub, lastCall, busLog>>

quoteVars == <<levelone_cache, inbox, lastParsed, mEntries, mEvents>>

mergeVars == <<mEntries, mEvents>>

tokVars == <<access_token, refresh_token, token_expires_in, token_ready, authPc,
             retry_count, retry_delay, prev_auth_code, refreshPc, published,
             lastOk, lastMsg, lastErr, failed_attempts, sleepFor, failedCodes>>

exportVars == <<reqPc, reqAnswer>>

streamVars == <<ds_access_token, streamer_config, ws, recv_task, connected, sock,
                sockLog, connPc, connUrl, recvPc, subPc, nEv, onTokPc,
                rxFrames, rxPublished, closedAt, lastFill>>

rxVars == <<rxFrames, rxPublished>>

vars == <<subscribers, tasks, nPub, lastCall, busLog,
          levelone_cache, inbox, lastParsed, mEntries, mEvents,
          access_token, refresh_token, token_expires_in, token_ready, authPc,
          retry_count, retry_delay, prev_auth_code, refreshPc, published,
          lastOk, lastMsg, lastErr, failed_attempts, sleepFor, failedCodes,
          reqPc, reqAnswer,
          ds_access_token, streamer_config, ws, recv_task, connected, sock,
          sockLog, connPc, connUrl, recvPc, subPc, nEv, onTokPc,
          rxFrames, rxPublished, closedAt, lastFill>>

None == "None"

(***************************************************************************)
(* EventBus                                                                *)
(***************************************************************************)

\* Bounds of the event bus model.
MaxSubs == 3        \* registrations held by the bus, over all kinds
MaxPublish == 2     \* publish calls in one behaviour
MaxTasks == 3       \* handler tasks waiting to start

\* The event kinds the bus is used with in this model (Event.type is the class name).
Kinds == {"TokenEvent", "MarketEvent"}

\* Handlers: two plain functions and one coroutine function.
Handlers == {"sync_a", "sync_b", "async_c"}

\* The TokenEvent handlers main() subscribes, in its order; each is an `async def`.
TokenHandlers ==
    <<"DataStream.on_token_event", "Portfolio.on_token_event",
      "TradeEngine.on_token_event">>

\* asyncio.iscoroutinefunction(subscriber)
IsAsync(h) == h = "async_c" \/ \E i \in 1..Len(TokenHandlers) : TokenHandlers[i] = h

\* self.subscribers = defaultdict(list)
InitSubscribers == [k \in Kinds |-> << >>]

\* Python's `x in list`
InList(l, h) == \E i \in 1..Len(l) : l[i] = h

\* Python's list.remove(x): scan from the front, delete the first element equal to x.
RECURSIVE ListRemoveFrom(_, _, _)
ListRemoveFrom(l, h, i) ==
    IF i > Len(l) THEN l
    ELSE IF l[i] = h THEN SubSeq(l, 1, i - 1) \o SubSeq(l, i + 1, Len(l))
    ELSE ListRemoveFrom(l, h, i + 1)

\* A removal that deletes every occurrence (what a filter-based unsubscribe would do).
ListRemoveAll(l, h) == SelectSeq(l, LAMBDA x : x # h)

ListRemove(l, h) == ListRemoveFrom(l, h, 1)

TotalSubs(subs) ==
    LET RECURSIVE Sum(_)
        Sum(S) == IF S = {} THEN 0
                  ELSE LET k == CHOOSE x \in S : TRUE IN Len(subs[k]) + Sum(S \ {k})
    IN Sum(Kinds)

NoCall == [op |-> "none"]

NoLog == [kinds |-> << >>, invoked |-> << >>]

\* EventBus.subscribe(event_type, subscriber)
Subscribe(k, h) ==
    /\ TotalSubs(subscribers) < MaxSubs
    /\ subscribers' = [subscribers EXCEPT ![k] = Append(@, h)]
    /\ lastCall' = [op |-> "subscribe", kind |-> k, h |-> h, before |-> subscribers]
    /\ UNCHANGED <<tasks, nPub>>

\* EventBus.unsubscribe(event_type, subscriber)
Unsubscribe(k, h) ==
    /\ subscribers' = IF InList(subscribers[k], h)
                      THEN [subscribers EXCEPT ![k] = ListRemove(@, h)]
                      ELSE subscribers
    /\ lastCall' = [op |-> "unsubscribe", kind |-> k, h |-> h, before |-> subscribers]
    /\ UNCHANGED <<tasks, nPub>>

\* The loop of EventBus.publish over one handler list.  `r` is the position of the
\* synchronous handler whose call raises (0: none raises).  The result is the trace
\* of what the loop did, in order: "call" is subscriber(event) run to completion
\* inline, "task" is asyncio.create_task(subscriber(event)).
RECURSIVE DeliverFrom(_, _, _, _)
DeliverFrom(hs, i, r, trace) ==
    IF i > Len(hs) THEN [trace |-> trace, outcome |-> "returned"]
    ELSE IF IsAsync(hs[i])
         THEN DeliverFrom(hs, i + 1, r, Append(trace, [h |-> hs[i], how |-> "task"]))
    ELSE IF i = r
         THEN [trace |-> Append(trace, [h |-> hs[i], how |-> "call"]), outcome |-> "raised"]
    ELSE DeliverFrom(hs, i + 1, r, Append(trace, [h |-> hs[i], how |-> "call"]))

\* A publish that delivers once per distinct handler.
RECURSIVE DedupList(_, _)
DedupList(l, acc) ==
    IF l = << >> THEN acc
    ELSE DedupList(Tail(l), IF InList(acc, Head(l)) THEN acc ELSE Append(acc, Head(l)))

DeliverDedup(hs, r) == DeliverFrom(DedupList(hs, << >>), 1, r, << >>)

\* A publish that awaits each coroutine handler instead of scheduling it.
RECURSIVE DeliverAwaitFrom(_, _, _, _)
DeliverAwaitFrom(hs, i, r, trace) ==
    IF i > Len(hs) THEN [trace |-> trace, outcome |-> "returned"]
    ELSE IF IsAsync(hs[i])
         THEN DeliverAwaitFrom(hs, i + 1, r, Append(trace, [h |-> hs[i], how |-> "await"]))
    ELSE IF i = r
         THEN [trace |-> Append(trace, [h |-> hs[i], how |-> "call"]), outcome |-> "raised"]
    ELSE DeliverAwaitFrom(hs, i + 1, r, Append(trace, [h |-> hs[i], how |-> "call"]))

DeliverAwait(hs, r) == DeliverAwaitFrom(hs, 1, r, << >>)

\* A publish that catches a handler's exception and goes on with the next handler.
DeliverSwallow(hs, r) == DeliverFrom(hs, 1, 0, << >>)

Deliver(hs, r) == DeliverFrom(hs, 1, r, << >>)

\* The tasks a delivery created, in creation order, for event `ev`.
RECURSIVE TasksOf(_, _)
TasksOf(trace, ev) ==
    IF trace = << >> THEN << >>
    ELSE IF Head(trace).how = "task"
         THEN <<[h |-> Head(trace).h, ev |-> ev]>> \o TasksOf(Tail(trace), ev)
    ELSE TasksOf(Tail(trace), ev)

\* EventBus.publish(event), event.type = k.  The coroutine has no await that
\* suspends, so it runs as one step.
Publish(k, r) ==
    /\ nPub < MaxPublish
    /\ r = 0 \/ (r \in 1..Len(subscribers[k]) /\ ~IsAsync(subscribers[k][r]))
    /\ LET d == Deliver(subscribers[k], r)
           made == TasksOf(d.trace, nPub + 1)
       IN /\ Len(tasks) + Len(made) <= MaxTasks
          /\ tasks' = tasks \o made
          /\ lastCall' = [op |-> "publish", kind |-> k, ev |-> nPub + 1, raiser |-> r,
                          before |-> subscribers, queued |-> tasks,
                          trace |-> d.trace, outcome |-> d.outcome]
    /\ nPub' = nPub + 1
    /\ UNCHANGED subscribers

\* The handlers a delivery called inline, in call order, for event `ev`.
RECURSIVE CallsOf(_, _)
CallsOf(trace, ev) ==
    IF trace = << >> THEN << >>
    ELSE IF Head(trace).how = "call"
         THEN <<[h |-> Head(trace).h, ev |-> ev]>> \o CallsOf(Tail(trace), ev)
    ELSE CallsOf(Tail(trace), ev)

\* The log after the publish call recorded in `call`.
LogPublish(log, call) ==
    [kinds |-> Append(log.kinds, call.kind),
     invoked |-> log.invoked \o CallsOf(call.trace, call.ev)]

\* The log after task t has started.
LogStart(log, t) == [log EXCEPT !.invoked = Append(@, t)]

\* An event loop that starts the newest task first.
NextTaskNewest(ts) == Len(ts)

\* The event loop runs the tasks create_task made in the order they were made:
\* the position in `ts` of the task that starts next.
NextTask(ts) == 1

\* The event loop starts the oldest task that create_task made.
StartTask ==
    /\ tasks # << >>
    /\ LET i == NextTask(tasks)
       IN /\ tasks' = SubSeq(tasks, 1, i - 1) \o SubSeq(tasks, i + 1, Len(tasks))
          /\ lastCall' = [op |-> "start", h |-> tasks[i].h, ev |-> tasks[i].ev]
    /\ UNCHANGED <<subscribers, nPub>>

BusInit ==
    /\ subscribers = InitSubscribers
    /\ tasks = << >>
    /\ nPub = 0
    /\ lastCall = NoCall
    /\ busLog = NoLog

(***************************************************************************)
(* DataStream: the level-one quote cache                                   *)
(***************************************************************************)

\* The symbols, values and timestamps the frames of the model carry.
Symbols == {"SGOV", "AAPL"}

Vals == {"v1", "v2"}

Times == {"t1", "t2"}

\* A dict key that is not set.
Absent == "Absent"

\* for field in ["delayed", "assetMainType", "assetSubType", "cusip"]
StaticFields == {"delayed", "assetMainType", "assetSubType", "cusip"}

\* self.levelone_equities_map: field code -> field name
Codes == {"1", "2", "3", "4", "5", "8", "10", "11", "12"}

levelone_equities_map ==
    [c \in Codes |->
        CASE c = "1" -> "bid_price"
          [] c = "2" -> "ask_price"
          [] c = "3" -> "last_price"
          [] c = "4" -> "bid_size"
          [] c = "5" -> "ask_size"
          [] c = "8" -> "total_volume"
          [] c = "10" -> "high_price"
          [] c = "11" -> "low_price"
          [] c = "12" -> "close_price"]

MappedFields == {levelone_equities_map[c] : c \in Codes}

\* The keys a cache record can hold.
RecFields == {"symbol", "timestamp"} \cup StaticFields \cup MappedFields

\* The keys of a content item the merge reads with content.get(...).
ContentKeys == StaticFields \cup Codes

\* The content keys that carry values in the frames of the model; content.get of
\* every other key gives None.
ActiveKeys == {"cusip", "1"}

\* A content item: its "key" and what content.get(k) returns for each key k.  None
\* stands for a key the frame omits and for one it carries as null: content.get
\* reads both as None.
Items ==
    {[key |-> s, get |-> [k \in ContentKeys |-> IF k \in ActiveKeys THEN g[k] ELSE None]] :
        s \in Symbols, g \in [ActiveKeys -> Vals \cup {None}]}

\* The items of the two-item contents: they carry a value for code "1" only.
PairItems == {a \in Items : a.get["cusip"] = None /\ a.get["1"] # None}

\* entry.get("content", []): no item, one item, or two items (of one symbol or of
\* two).
Contents ==
    {<< >>} \cup {<<a>> : a \in Items} \cup {<<a, b>> : a \in PairItems, b \in PairItems}

\* A data entry of service LEVELONE_EQUITIES: entry.get("timestamp") and content.
Entries == [timestamp : Times \cup {None}, content : Contents]

\* A symbol that is not in self.levelone_cache: no key of its record is set.
NoStock == [f \in RecFields |-> Absent]

\* `symbol in self.levelone_cache`
InCache(cache, symbol) == cache[symbol] # NoStock

\* self.levelone_cache[symbol] = {"symbol": symbol}
NewStock(symbol) == [f \in RecFields |-> IF f = "symbol" THEN symbol ELSE Absent]

\* The code whose mapped name is f (the table read from the name's side).
CodeOf == [f \in MappedFields |-> CHOOSE c \in Codes : levelone_equities_map[c] = f]

\* A merge that lets every frame write the static fields.
MergeStockOverwrite(stock, timestamp, item) ==
    [f \in RecFields |->
        CASE f \in StaticFields ->
                IF item.get[f] # None \/ stock[f] = Absent THEN item.get[f] ELSE stock[f]
          [] f = "timestamp" -> timestamp
          [] f \in MappedFields ->
                IF item.get[CodeOf[f]] # None THEN item.get[CodeOf[f]] ELSE stock[f]
          [] OTHER -> stock[f]]

\* One pass of the for loop over the content, on the record of the item's symbol:
\* the static fields (written when not set or None), the timestamp (always
\* written) and the mapped fields (written when the item's value is not None).
MergeStock(stock, timestamp, item) ==
    [f \in RecFields |->
        CASE f \in StaticFields ->
                IF stock[f] = Absent \/ stock[f] = None THEN item.get[f] ELSE stock[f]
          [] f = "timestamp" -> timestamp
          [] f \in MappedFields ->
                IF item.get[CodeOf[f]] # None THEN item.get[CodeOf[f]] ELSE stock[f]
          [] OTHER -> stock[f]]

\* A merge that starts from a fresh record on every update.
MergeItemReplace(cache, timestamp, item) ==
    [cache EXCEPT ![item.key] = MergeStock(NewStock(item.key), timestamp, item)]

MergeItem(cache, timestamp, item) ==
    LET stock == IF ~InCache(cache, item.key) THEN NewStock(item.key) ELSE cache[item.key]
    IN [cache EXCEPT ![item.key] = MergeStock(stock, timestamp, item)]

\* A parser that returns each record as it was before the item was merged.
RECURSIVE ParseFromStale(_, _, _, _)
ParseFromStale(cache, entry, i, parsed) ==
    IF i > Len(entry.content) THEN [cache |-> cache, parsed |-> parsed]
    ELSE LET item == entry.content[i]
             c2 == MergeItem(cache, entry.timestamp, item)
         IN ParseFromStale(c2, entry, i + 1, Append(parsed, cache[item.key]))

\* parse_levelone_equities_entry: the cache and the list `parsed` after the loop
\* has handled content[i..].  parsed.append(stock.copy()) stores the record's value.
RECURSIVE ParseFrom(_, _, _, _)
ParseFrom(cache, entry, i, parsed) ==
    IF i > Len(entry.content) THEN [cache |-> cache, parsed |-> parsed]
    ELSE LET item == entry.content[i]
             c2 == MergeItem(cache, entry.timestamp, item)
         IN ParseFrom(c2, entry, i + 1, Append(parsed, c2[item.key]))

parse_levelone_equities_entry(cache, entry) == ParseFrom(cache, entry, 1, << >>)

\* The server sends a data entry of service LEVELONE_EQUITIES; it waits in the
\* socket until the receive loop reads it.
FrameArrives(entry) ==
    /\ inbox = << >>
    /\ inbox' = <<entry>>
    /\ UNCHANGED <<levelone_cache, lastParsed>>

\* The receive loop reads the entry and hands it to the parser.
ParseEntry ==
    /\ inbox # << >>
    /\ LET r == parse_levelone_equities_entry(levelone_cache, Head(inbox))
       IN /\ levelone_cache' = r.cache
          /\ lastParsed' = r.parsed
    /\ inbox' = << >>

\* Level-one entries handled in one behaviour of the receive loop.
MaxMerges == 2

\* Items that come second in a two-item content and carry an identifier.
LateItems == {a \in Items : a.get["cusip"] = "v1" /\ a.get["1"] # "v1"}

\* The entries the receive loop is given: with no item or one item and a
\* timestamp, with one item and no timestamp, and with two items, the second of
\* which may carry keys the first omits.
MergeEntries ==
    [timestamp : Times, content : {<< >>} \cup {<<a>> : a \in Items}]
        \cup {[timestamp |-> None, content |-> <<a>>] : a \in PairItems}
        \cup {[timestamp |-> "t2", content |-> <<a, b>>] : a \in PairItems, b \in LateItems}

\* A payload that holds the cache's own dict instead of a copy of it.
SnapshotAlias(stock) == [alias |-> TRUE, symbol |-> stock["symbol"], rec |-> stock]

\* stock.copy(): an object of its own, holding the record's values of now.
Snapshot(stock) == [alias |-> FALSE, symbol |-> stock["symbol"], rec |-> stock]

\* What a reader of a payload object sees: a dict shared with the cache shows the
\* cache's record of now, a copy shows what was copied.
ViewIn(cache, obj) == IF obj.alias THEN cache[obj.symbol] ELSE obj.rec

\* A loop that publishes every list the parser returns.
ShouldPublishAlways(data) == TRUE

\* if data:
ShouldPublish(data) == data # << >>

\* The receive loop handles a data entry of service LEVELONE_EQUITIES: it parses
\* it and, when the list returned is not empty, publishes MarketEvent(data=data).
RecvLevelOne(entry) ==
    /\ Len(mEntries) < MaxMerges
    /\ mEntries' = Append(mEntries, entry)
    /\ LET r == parse_levelone_equities_entry(levelone_cache, entry)
           data == [i \in 1..Len(r.parsed) |-> Snapshot(r.parsed[i])]
       IN /\ levelone_cache' = r.cache
          /\ lastParsed' = r.parsed
          /\ mEvents' = IF ShouldPublish(data) THEN Append(mEvents, data) ELSE mEvents
    /\ UNCHANGED inbox

QuoteInit ==
    /\ levelone_cache = [s \in Symbols |-> NoStock]
    /\ inbox = << >>
    /\ lastParsed = << >>
    /\ mEntries = << >>
    /\ mEvents = << >>

(***************************************************************************)
(* TokenEngine                                                             *)
(***************************************************************************)

\* Bounds of the token model.
MaxTokens == 2      \* token responses that pass validation in one behaviour
NumCodes == 2       \* distinct authorization codes the relay sends

\* max_retry = 100
max_retry == 100

\* retry_delay = 5 (delays are counted in 1/128 s, which keeps 5 * 1.5^k exact
\* up to the cap)
InitialDelay == 5 * 128

\* the cap of the delay: 60
DelayCap == 60 * 128

\* A backoff that doubles the delay.
NextDelayDouble(d) == IF d * 2 < DelayCap THEN d * 2 ELSE DelayCap

\* min(retry_delay * 1.5, 60)
NextDelay(d) == IF (d * 3) \div 2 < DelayCap THEN (d * 3) \div 2 ELSE DelayCap

\* self.token_expires_in = None
NoBudget == -1

\* What the token endpoint reports as expires_in and how long the request took,
\* in tenths of a second.
ExpiresInVals == {18000}

ElapsedVals == {0, 42}

\* The ways a token request ends without a token response that passes the
\* validation: a failed HTTP call, a body that is not JSON, a JSON body without
\* one of the two tokens.
FailedOutcomes == {"request_error", "not_json", "missing_field"}

\* The answers of the token endpoint.  A body that passes the validation holds
\* both tokens (the refresh token possibly empty) and an expires_in that is a
\* number, is null, or is not there.
Responses ==
    [outcome : {"ok"}, refresh : {"fresh", "empty"}, expires_in : ExpiresInVals,
     elapsed : ElapsedVals]
    \cup [outcome : FailedOutcomes \cup {"no_expires_in", "null_expires_in"},
          refresh : {"fresh"}, expires_in : {0}, elapsed : {0}]

\* The body of the n-th token response: a fresh access token, a fresh refresh token.
TokenDict(n, resp) ==
    [access_token |-> n,
     refresh_token |-> IF resp.refresh = "fresh" THEN n ELSE 0,
     expires_in |-> resp.expires_in]

\* A request that stores the expiry budget before it looks at the answer.
request_schwab_token_BudgetFirst(resp, dict) ==
    [raised |-> CASE resp.outcome = "request_error" -> "RuntimeError"
                  [] resp.outcome \in {"not_json", "missing_field"} -> "ValueError"
                  [] resp.outcome = "no_expires_in" -> "KeyError"
                  [] resp.outcome = "null_expires_in" -> "TypeError"
                  [] OTHER -> "no",
     token_expires_in |-> IF resp.outcome = "ok" THEN dict.expires_in - resp.elapsed
                          ELSE NoBudget]

\* _request_schwab_token: what it raises, what it leaves in token_expires_in,
\* what it returns.
request_schwab_token(resp, dict) ==
    CASE resp.outcome = "request_error" ->
           [raised |-> "RuntimeError", token_expires_in |-> token_expires_in]
      [] resp.outcome \in {"not_json", "missing_field"} ->
           [raised |-> "ValueError", token_expires_in |-> token_expires_in]
      [] resp.outcome = "no_expires_in" ->
           [raised |-> "KeyError", token_expires_in |-> token_expires_in]
      [] resp.outcome = "null_expires_in" ->
           [raised |-> "TypeError", token_expires_in |-> NoBudget]
      [] OTHER ->
           [raised |-> "no", token_expires_in |-> dict.expires_in - resp.elapsed]

\* A store that forgets the new refresh token.
StoreTokensAccessOnly(dict) ==
    [refresh_token |-> refresh_token, access_token |-> dict.access_token]

\* self.refresh_token = token_dict["refresh_token"]
\* self.access_token = token_dict["access_token"]
StoreTokens(dict) ==
    [refresh_token |-> dict.refresh_token, access_token |-> dict.access_token]

\* The tokens handed out so far.
TokensIssued == IF lastOk = << >> THEN 0 ELSE lastOk[1].dict.access_token

\* A token exchange (get_token, or the body of the refresh loop) from the request to
\* the publish; nothing in between suspends.
Exchange(resp) ==
    LET dict == TokenDict(TokensIssued + 1, resp)
        r == request_schwab_token(resp, dict)
    IN /\ resp.outcome = "ok" => TokensIssued < MaxTokens
       /\ token_expires_in' = r.token_expires_in
       /\ IF r.raised = "no"
          THEN /\ refresh_token' = StoreTokens(dict).refresh_token
               /\ access_token' = StoreTokens(dict).access_token
               /\ published' = Append(published,
                                      [type |-> "TokenEvent",
                                       access_token |-> StoreTokens(dict).access_token])
               /\ tasks' = tasks \o TasksOf(Deliver(subscribers["TokenEvent"], 0).trace,
                                           Len(published) + 1)
               /\ lastOk' = <<[dict |-> dict, elapsed |-> resp.elapsed]>>
          ELSE UNCHANGED <<refresh_token, access_token, published, tasks, lastOk>>

\* The retry section of get_auth_code (after the try): count, then sleep or stop.
\* A retry section that gives up one failure earlier.
AuthRetryStrict ==
    /\ retry_count' = retry_count + 1
    /\ authPc' = IF retry_count + 1 < max_retry THEN "sleeping" ELSE "stopped"
    /\ UNCHANGED retry_delay

AuthRetry ==
    /\ retry_count' = retry_count + 1
    /\ authPc' = IF retry_count + 1 <= max_retry THEN "sleeping" ELSE "stopped"
    /\ UNCHANGED retry_delay

\* if current_auth_code != prev_auth_code
\* A test that lets every code through.
CodeIsNewAlways(code, prev) == TRUE

CodeIsNew(code, prev) == code # prev

\* A connection that leaves the retry variables as they are.
AuthConnectedKeepsCount ==
    /\ authPc = "connecting"
    /\ authPc' = "listening"
    /\ failed_attempts' = 0
    /\ UNCHANGED <<retry_count, retry_delay, lastErr>>
    /\ UNCHANGED <<access_token, refresh_token, token_expires_in, token_ready,
                   prev_auth_code, refreshPc, published, lastOk, lastMsg, tasks>>

\* websockets.connect(...) succeeds: both retry variables are reset.
AuthConnected ==
    /\ authPc = "connecting"
    /\ authPc' = "listening"
    /\ retry_count' = 0
    /\ retry_delay' = InitialDelay
    /\ failed_attempts' = 0
    /\ UNCHANGED lastErr
    /\ UNCHANGED <<access_token, refresh_token, token_expires_in, token_ready,
                   prev_auth_code, refreshPc, published, lastOk, lastMsg, tasks>>

\* An InvalidURI that is handled like any other error.
AuthInvalidURIRetries ==
    /\ authPc = "connecting"
    /\ AuthRetry
    /\ lastErr' = "InvalidURI"
    /\ failed_attempts' = failed_attempts + 1
    /\ UNCHANGED <<access_token, refresh_token, token_expires_in, token_ready,
                   prev_auth_code, refreshPc, published, lastOk, lastMsg, tasks>>

\* websockets.connect(...) raises InvalidURI: break.
AuthInvalidURI ==
    /\ authPc = "connecting"
    /\ authPc' = "stopped"
    /\ lastErr' = "InvalidURI"
    /\ failed_attempts' = failed_attempts + 1
    /\ UNCHANGED <<access_token, refresh_token, token_expires_in, token_ready,
                   retry_count, retry_delay, prev_auth_code, refreshPc, published,
                   lastOk, lastMsg, tasks>>

\* websockets.connect(...) raises anything else.
AuthConnectFails ==
    /\ authPc = "connecting"
    /\ AuthRetry
    /\ lastErr' = "error"
    /\ failed_attempts' = failed_attempts + 1
    /\ UNCHANGED <<access_token, refresh_token, token_expires_in, token_ready,
                   prev_auth_code, refreshPc, published, lastOk, lastMsg, tasks>>

\* A loop that records a code as processed only when its exchange succeeded.
AuthCodeRecordsOnSuccess(code) ==
    /\ authPc = "listening"
    /\ IF CodeIsNew(code, prev_auth_code)
       THEN \E resp \in Responses :
            /\ prev_auth_code' = IF resp.outcome = "ok" THEN code ELSE prev_auth_code
            /\ Exchange(resp)
            /\ IF resp.outcome = "ok"
               THEN /\ token_ready' = TRUE
                    /\ UNCHANGED <<authPc, retry_count, retry_delay, lastErr>>
               ELSE /\ AuthRetry
                    /\ lastErr' = "error"
                    /\ UNCHANGED token_ready
            /\ lastMsg' = [code |-> code, prev |-> lastMsg.code, requested |-> TRUE,
                           outcome |-> resp.outcome]
       ELSE /\ lastMsg' = [code |-> code, prev |-> lastMsg.code, requested |-> FALSE,
                           outcome |-> "none"]
            /\ UNCHANGED <<access_token, refresh_token, token_expires_in, token_ready,
                           authPc, retry_count, retry_delay, prev_auth_code, published,
                           lastOk, tasks, lastErr>>
    /\ UNCHANGED <<refreshPc, failed_attempts>>

\* The relay sends {"code": code}: lines 50 to 57.
AuthCode(code) ==
    /\ authPc = "listening"
    /\ IF CodeIsNew(code, prev_auth_code)
       THEN \E resp \in Responses :
            /\ prev_auth_code' = code
            /\ Exchange(resp)
            /\ IF resp.outcome = "ok"
               THEN /\ token_ready' = TRUE
                    /\ UNCHANGED <<authPc, retry_count, retry_delay, lastErr>>
               ELSE /\ AuthRetry
                    /\ lastErr' = "error"
                    /\ UNCHANGED token_ready
            /\ lastMsg' = [code |-> code, prev |-> lastMsg.code, requested |-> TRUE,
                           outcome |-> resp.outcome]
       ELSE /\ lastMsg' = [code |-> code, prev |-> lastMsg.code, requested |-> FALSE,
                           outcome |-> "none"]
            /\ UNCHANGED <<access_token, refresh_token, token_expires_in, token_ready,
                           authPc, retry_count, retry_delay, prev_auth_code, published,
                           lastOk, tasks, lastErr>>
    /\ UNCHANGED <<refreshPc, failed_attempts>>

\* The relay sends a frame that is not JSON or has no "code": json.loads or
\* data['code'] raises, `except Exception` catches it.
AuthBadFrame ==
    /\ authPc = "listening"
    /\ AuthRetry
    /\ lastErr' = "error"
    /\ UNCHANGED failed_attempts
    /\ UNCHANGED <<access_token, refresh_token, token_expires_in, token_ready,
                   prev_auth_code, refreshPc, published, lastOk, lastMsg, tasks>>

\* The relay connection closes (with an error, or normally: the async for ends).
AuthClosed ==
    /\ authPc = "listening"
    /\ AuthRetry
    /\ lastErr' = "closed"
    /\ UNCHANGED failed_attempts
    /\ UNCHANGED <<access_token, refresh_token, token_expires_in, token_ready,
                   prev_auth_code, refreshPc, published, lastOk, lastMsg, tasks>>

\* asyncio.sleep(retry_delay) is over: the delay grows, the loop starts again.
AuthWake ==
    /\ authPc = "sleeping"
    /\ retry_delay' = NextDelay(retry_delay)
    /\ authPc' = "connecting"
    /\ lastErr' = "none"
    /\ UNCHANGED failed_attempts
    /\ UNCHANGED <<access_token, refresh_token, token_expires_in, token_ready,
                   retry_count, prev_auth_code, refreshPc, published, lastOk, lastMsg,
                   tasks>>

\* A sleep that lasts whole seconds only.
SleepLastsWhole(delay) == IF delay <= 0 THEN 0 ELSE (delay \div 10) * 10

\* asyncio.sleep(delay), line 162: returns after delay, at once when delay is not
\* positive.  Tenths of a second.
SleepLasts(delay) == IF delay <= 0 THEN 0 ELSE delay

\* async_refresh_token: token_ready.wait() returns, the first sleep starts; lines
\* 159 to 162.  asyncio.sleep compares its argument with 0 and so raises TypeError
\* when the budget is None.
RefreshReady ==
    /\ refreshPc = "wait_ready"
    /\ token_ready
    /\ refreshPc' = IF token_expires_in = NoBudget THEN "TypeError" ELSE "sleeping"
    /\ UNCHANGED <<access_token, refresh_token, token_expires_in, token_ready, authPc,
                   retry_count, retry_delay, prev_auth_code, published, lastOk, lastMsg,
                   tasks, lastErr, failed_attempts>>

\* async_refresh_token: the sleep is over; lines 164 to 177.
RefreshWake ==
    /\ refreshPc = "sleeping"
    /\ IF refresh_token = 0
       THEN /\ refreshPc' = "unset_error"
            /\ UNCHANGED <<access_token, refresh_token, token_expires_in, published,
                           lastOk, tasks>>
       ELSE \E resp \in Responses :
            /\ Exchange(resp)
            /\ refreshPc' = IF resp.outcome = "ok" THEN "sleeping"
                            ELSE request_schwab_token(resp, TokenDict(TokensIssued + 1, resp)).raised
    /\ UNCHANGED <<token_ready, authPc, retry_count, retry_delay, prev_auth_code, lastMsg,
                   lastErr, failed_attempts>>

TokInit ==
    /\ access_token = 0
    /\ refresh_token = 0
    /\ token_expires_in = NoBudget
    /\ token_ready = FALSE
    /\ authPc = "connecting"
    /\ retry_count = 0
    /\ retry_delay = InitialDelay
    /\ prev_auth_code = 0
    /\ refreshPc = "wait_ready"
    /\ published = << >>
    /\ lastOk = << >>
    /\ lastMsg = [code |-> 0, prev |-> 0, requested |-> FALSE, outcome |-> "none"]
    /\ lastErr = "none"
    /\ failed_attempts = 0
    /\ sleepFor = NoBudget
    /\ failedCodes = {}

(***************************************************************************)
(* TokenEngine: the token exporter (start_http_server)                     *)
(***************************************************************************)

\* GET / requests the exporter handles at the same time, each by a task of its
\* own; a handler that has answered is free for the next request.
MaxRequests == 2

Requests == 1..MaxRequests

NoAnswer == [built |-> FALSE, access_token |-> 0, waited |-> FALSE]

\* A handler that does not wait for the ready signal.
MayAnswerAlways == TRUE

\* await self.token_ready.wait() returns
MayAnswer == token_ready

\* web.json_response({"access_token": self.access_token})
AnswerOf(waited) ==
    [built |-> TRUE, access_token |-> access_token, waited |-> waited]

\* A GET / arrives and handle(request) starts: with the signal set wait() returns
\* without suspending and the answer is built at once, else the handler waits.
ExportRequest(r) ==
    /\ reqPc[r] = "none"
    /\ IF MayAnswer
       THEN /\ reqAnswer' = AnswerOf(FALSE)
            /\ UNCHANGED reqPc
       ELSE /\ reqPc' = [reqPc EXCEPT ![r] = "waiting"]
            /\ UNCHANGED reqAnswer

\* A waiting handler is woken by the ready signal and builds its answer.
ExportAnswer(r) ==
    /\ reqPc[r] = "waiting"
    /\ MayAnswer
    /\ reqPc' = [reqPc EXCEPT ![r] = "none"]
    /\ reqAnswer' = AnswerOf(TRUE)

ExportInit ==
    /\ reqPc = [r \in Requests |-> "none"]
    /\ reqAnswer = NoAnswer

(***************************************************************************)
(* DataStream: the account-activity decode                                 *)
(***************************************************************************)

\* Decimal numbers m * 10^e, kept with no trailing zero in m (zero is 0 * 10^0), so
\* that equal numbers are equal records.  The code computes in binary floating
\* point; the rounding of the two operations is not modelled.
RECURSIVE Norm(_, _)
Norm(m, e) ==
    IF m = 0 THEN [m |-> 0, e |-> 0]
    ELSE IF m % 10 = 0 THEN Norm(m \div 10, e + 1)
    ELSE [m |-> m, e |-> e]

\* The integer n.
Dec(n) == Norm(n, 0)

\* d / (10 ** s)
DecDivPow10(d, s) == Norm(d.m, d.e - s)

\* d * 10**k
DecMulPow10(d, k) == Norm(d.m, d.e + k)

\* dict.get(key, default)
Get(x, key, default) == IF key \in DOMAIN x THEN x[key] ELSE default

\* The mantissas and scales of the nested values in this model.
LoVals == {0, 5, 123456}

ScaleVals == {0, 2, 8}

\* A nested fixed-point value: a dict that may hold "lo" and "signScale".
NestedVals ==
    {x \in UNION {[K -> LoVals \cup ScaleVals] : K \in SUBSET {"lo", "signScale"}} :
        /\ "lo" \in DOMAIN x => x["lo"] \in LoVals
        /\ "signScale" \in DOMAIN x => x["signScale"] \in ScaleVals}

\* A decode that scales by 10**9.
FixedPointBillions(x) ==
    DecMulPow10(DecDivPow10(Dec(Get(x, "lo", 0)), Get(x, "signScale", 0)), 9)

\* int(x.get("lo", 0)) / (10 ** int(x.get("signScale", 0))) * 10**6: lines 227, 230
\* and 233.
FixedPoint(x) ==
    DecMulPow10(DecDivPow10(Dec(Get(x, "lo", 0)), Get(x, "signScale", 0)), 6)

\* The content items of an account-activity entry: field "2" is the order status,
\* field "3" holds the ExecutionInfo with its three nested values.
FillStatuses == {"OrderFillCompleted", "OrderAccepted"}

\* Prices are complete and not zero; a commission has no "lo" or is zero.
PriceVals == {x \in NestedVals : DOMAIN x = {"lo", "signScale"} /\ x["lo"] # 0}

CommissionVals == {x \in NestedVals : "lo" \in DOMAIN x => x["lo"] = 0}

\* Items for the entries of two items, and the items of other statuses.
PlainFillItems ==
    {a \in [status : FillStatuses, ExecutionQuantity : PriceVals,
            ExecutionPrice : PriceVals, ActualChargedCommissionAmount : {<< >>}] :
        a.ExecutionPrice = a.ExecutionQuantity /\ a.ExecutionQuantity["signScale"] = 2}

FillItems ==
    [status : {"OrderFillCompleted"}, ExecutionQuantity : NestedVals,
     ExecutionPrice : PriceVals, ActualChargedCommissionAmount : CommissionVals]
    \cup PlainFillItems

AcctEntries ==
    [timestamp : {"t1"}, content : {<< >>} \cup {<<a>> : a \in FillItems}
                                   \cup {<<a, b>> : a \in PlainFillItems, b \in PlainFillItems}]

\* The FillEvent of one completed fill: lines 225 to 236 (symbol, signal and meta
\* left out).
FillEventOf(timestamp, item) ==
    [type |-> "FillEvent", timestamp |-> timestamp,
     quantity |-> FixedPoint(item.ExecutionQuantity),
     fill_price |-> FixedPoint(item.ExecutionPrice),
     commission |-> FixedPoint(item.ActualChargedCommissionAmount)]

\* The loop of lines 213 to 236 over content[i..]: the FillEvents published.
RECURSIVE FillsFrom(_, _, _)
FillsFrom(timestamp, content, i) ==
    IF i > Len(content) THEN << >>
    ELSE (IF content[i].status = "OrderFillCompleted"
          THEN <<FillEventOf(timestamp, content[i])>> ELSE << >>)
         \o FillsFrom(timestamp, content, i + 1)

NoFill == [entry |-> [timestamp |-> "t1", content |-> << >>], events |-> << >>]

\* parse_account_activity_entry(entry), lines 211 to 236; publish does not suspend,
\* so the whole call is one step.
ParseAccountActivity(entry) ==
    lastFill' = [entry |-> entry, events |-> FillsFrom(entry.timestamp, entry.content, 1)]

(***************************************************************************)
(* DataStream: sessions                                                    *)
(***************************************************************************)

\* TokenEvents delivered to DataStream in one behaviour.  The k-th event carries
\* access token k; the connect_streamer task it creates, the socket that task
\* opens, the receive task and the account-activity task it starts all get
\* the number k.
MaxEvents == 2

Sessions == 1..MaxEvents

\* The subscription tasks: sub_levelone_equities, created once by main(), is
\* task 0; sub_account_activity of connect_streamer task k is task k.
SubTasks == 0..MaxEvents

\* The service a subscription task subscribes.
ServiceOf(t) == IF t = 0 THEN "LEVELONE_EQUITIES" ELSE "ACCT_ACTIVITY"

\* self.ws.open: the connection is in the OPEN state (false while a closing
\* handshake is under way and after it).
IsOpen(w) == w # 0 /\ sock[w].state = "open"

\* A connect_streamer that never closes the socket it replaces.
MustCloseNever(w) == FALSE

\* if self.ws and self.ws.open
MustClose(w) == IsOpen(w)

\* self._ws_lock is held by the connect_streamer task that is between its
\* acquisition and the end of the `async with` block.
LockHolders == {c \in Sessions : connPc[c] \in {"closing", "connecting"}}

\* A connect_streamer that does not take the lock.
NextWaiterNoLock(c) == connPc[c] = "waiting"

\* asyncio.Lock wakes its waiters in the order they arrived, which is the order
\* the tasks were created in.
NextWaiter(c) ==
    /\ connPc[c] = "waiting"
    /\ LockHolders = {}
    /\ \A d \in Sessions : d < c => connPc[d] # "waiting"

\* if self.recv_task and not self.recv_task.done(): self.recv_task.cancel()
\* cancel() only requests the cancellation: the task is done once it has run again.
CancelRecv(pcs, t) ==
    IF t # 0 /\ pcs[t] \in {"running", "cancelling"}
    THEN [pcs EXCEPT ![t] = "cancelling"]
    ELSE pcs

\* An on_token_event that reconnects on every TokenEvent.
NeedsReconnectAlways(w) == TRUE

\* if self.ws is None or not self.ws.open
NeedsReconnect(w) == w = 0 \/ ~IsOpen(w)

\* A receive loop that only handles the closing of the connection.
CaughtByRecvCloseOnly == {"ConnectionClosed"}

\* except asyncio.CancelledError / except websockets.exceptions.ConnectionClosed
CaughtByRecv == {"CancelledError", "ConnectionClosed"}

\* How the recv_streamer task ends when exception exc comes out of its
\* `async for` ("no": the iteration ends, as it does after a clean close): a
\* caught exception ends it normally, CancelledError left uncaught ends it as
\* cancelled, any other exception ends it with that exception.
RecvEnds(exc) ==
    IF exc = "no" \/ exc \in CaughtByRecv THEN "done"
    ELSE IF exc = "CancelledError" THEN "cancelled"
    ELSE "raised"

\* The exceptions a closed connection gives the loop: none after a clean close
\* (ConnectionClosedOK ends the iteration), ConnectionClosedError otherwise.
CloseOutcomes == {"no", "ConnectionClosed"}

\* An on_token_event that creates the connect_streamer task before it fetches the
\* configuration.
OnTokenEventConnectFirst(ok) ==
    /\ nEv < MaxEvents
    /\ nEv' = nEv + 1
    /\ ds_access_token' = nEv + 1
    /\ IF NeedsReconnect(ws)
       THEN /\ connPc' = [connPc EXCEPT ![nEv + 1] = "waiting"]
            /\ streamer_config' = IF ok THEN nEv + 1 ELSE streamer_config
            /\ onTokPc' = [onTokPc EXCEPT ![nEv + 1] =
                              IF ok THEN "scheduled" ELSE "fetch_raised"]
       ELSE /\ ok
            /\ onTokPc' = [onTokPc EXCEPT ![nEv + 1] = "skipped"]
            /\ UNCHANGED <<streamer_config, connPc>>
    /\ UNCHANGED <<ws, recv_task, connected, sock, sockLog, connUrl, recvPc, subPc>>

\* DataStream.on_token_event(event), the bus having started it as a task.  `ok`
\* tells whether get_streamer_config returns or raises.
OnTokenEvent(ok) ==
    /\ nEv < MaxEvents
    /\ nEv' = nEv + 1
    /\ ds_access_token' = nEv + 1
    /\ IF NeedsReconnect(ws)
       THEN IF ok
            THEN /\ streamer_config' = nEv + 1
                 /\ connPc' = [connPc EXCEPT ![nEv + 1] = "waiting"]
                 /\ onTokPc' = [onTokPc EXCEPT ![nEv + 1] = "scheduled"]
            ELSE /\ onTokPc' = [onTokPc EXCEPT ![nEv + 1] = "fetch_raised"]
                 /\ UNCHANGED <<streamer_config, connPc>>
       ELSE /\ ok
            /\ onTokPc' = [onTokPc EXCEPT ![nEv + 1] = "skipped"]
            /\ UNCHANGED <<streamer_config, connPc>>
    /\ UNCHANGED <<ws, recv_task, connected, sock, sockLog, connUrl, recvPc, subPc>>

\* connect_streamer acquires the lock; lines 78 to 84, up to the first await that
\* suspends: ws.close() of an open socket, or else websockets.connect(url).
ConnEnter(c) ==
    /\ NextWaiter(c)
    /\ IF MustClose(ws)
       THEN /\ sock' = [sock EXCEPT ![ws].state = "closing", ![ws].closer = "connect_streamer"]
            /\ connPc' = [connPc EXCEPT ![c] = "closing"]
            /\ UNCHANGED connUrl
       ELSE /\ connPc' = [connPc EXCEPT ![c] = "connecting"]
            /\ connUrl' = [connUrl EXCEPT ![c] = streamer_config]
            /\ UNCHANGED sock
    /\ UNCHANGED <<ds_access_token, streamer_config, ws, recv_task, connected, sockLog,
                   recvPc, subPc, nEv>>

\* await self.ws.close() returns, websockets.connect(url) starts.
ConnClosed(c) ==
    /\ connPc[c] = "closing"
    /\ sock[ws].state = "closed"
    /\ connPc' = [connPc EXCEPT ![c] = "connecting"]
    /\ connUrl' = [connUrl EXCEPT ![c] = streamer_config]
    /\ UNCHANGED <<ds_access_token, streamer_config, ws, recv_task, connected, sock,
                   sockLog, recvPc, subPc, nEv>>

\* websockets.connect returns; lines 84 to 114: the old receive task is asked to
\* stop, the new one is created, LOGIN is sent on the new socket (which does not
\* suspend on a socket just opened), the account-activity task is created, the lock
\* is released.
ConnOpened(c) ==
    /\ connPc[c] = "connecting"
    /\ sock' = [sock EXCEPT ![c] = [state |-> "open", url |-> connUrl[c], closer |-> "none"]]
    /\ ws' = c
    /\ recvPc' = [CancelRecv(recvPc, recv_task) EXCEPT ![c] = "running"]
    /\ recv_task' = c
    /\ sockLog' = [sockLog EXCEPT ![c] = <<[frame |-> "LOGIN", config |-> streamer_config]>>]
    /\ subPc' = [subPc EXCEPT ![c] = "waiting"]
    /\ connPc' = [connPc EXCEPT ![c] = "done"]
    /\ UNCHANGED <<ds_access_token, streamer_config, connected, connUrl, nEv>>

\* websockets.connect raises (refused, timed out): the exception leaves the
\* `async with` block and ends the task.
ConnFails(c) ==
    /\ connPc[c] = "connecting"
    /\ connPc' = [connPc EXCEPT ![c] = "raised"]
    /\ UNCHANGED <<ds_access_token, streamer_config, ws, recv_task, connected, sock,
                   sockLog, connUrl, recvPc, subPc, nEv>>

\* The peer, or a keep-alive timeout, starts closing an open socket.
PeerCloses(k) ==
    /\ sock[k].state = "open"
    /\ sock' = [sock EXCEPT ![k].state = "closing", ![k].closer = "peer"]
    /\ UNCHANGED <<ds_access_token, streamer_config, ws, recv_task, connected, sockLog,
                   connPc, connUrl, recvPc, subPc, nEv>>

\* A receive loop that dials again by itself when its connection has closed.
CloseCompletesRetry(k) ==
    /\ sock[k].state = "closing"
    /\ sock' = [sock EXCEPT ![k].state = "closed"]
    /\ recvPc' = [recvPc EXCEPT ![k] = IF @ \in {"running", "cancelling"} THEN "done" ELSE @]
    /\ connPc' = [connPc EXCEPT ![k] = IF recvPc[k] \in {"running", "cancelling"}
                                       THEN "waiting" ELSE @]
    /\ UNCHANGED <<ds_access_token, streamer_config, ws, recv_task, connected, sockLog,
                   connUrl, subPc, nEv>>

\* The closing of a socket completes.  Its receive task, waiting in `async for msg
\* in self.ws`, is woken by the close and ends (lines 160, 193) before the event
\* loop looks at the network again.
CloseCompletes(k) ==
    /\ sock[k].state = "closing"
    /\ sock' = [sock EXCEPT ![k].state = "closed"]
    /\ \E exc \in CloseOutcomes :
          recvPc' = [recvPc EXCEPT ![k] = IF @ \in {"running", "cancelling"}
                                         THEN RecvEnds(exc) ELSE @]
    /\ UNCHANGED <<ds_access_token, streamer_config, ws, recv_task, connected, sockLog,
                   connPc, connUrl, subPc, nEv>>

\* A receive task whose cancellation was requested runs again: CancelledError is
\* thrown into it and caught (line 191).
RecvCancelled(k) ==
    /\ recvPc[k] = "cancelling"
    /\ recvPc' = [recvPc EXCEPT ![k] = RecvEnds("CancelledError")]
    /\ UNCHANGED <<ds_access_token, streamer_config, ws, recv_task, connected, sock,
                   sockLog, connPc, connUrl, subPc, nEv>>

\* recv_streamer receives the response to the LOGIN of its socket with code 0:
\* self.connected.set() (lines 164 to 172).
RecvLoginAck(k) ==
    /\ recvPc[k] = "running"
    /\ sock[k].state = "open"
    /\ \A i \in 1..Len(sockLog[k]) : sockLog[k][i].frame # "ACK"
    /\ connected' = TRUE
    /\ sockLog' = [sockLog EXCEPT ![k] = Append(@, [frame |-> "ACK", config |-> 0])]
    /\ UNCHANGED <<ds_access_token, streamer_config, ws, recv_task, sock, connPc, connUrl,
                   recvPc, subPc, nEv>>

\* sub_levelone_equities / sub_account_activity: connected.wait() has returned,
\* the SUBS frame is sent on whatever self.ws is now; ws.send raises when that
\* socket is no longer open.
SubSend(t) ==
    /\ subPc[t] = "waiting"
    /\ connected
    /\ IF IsOpen(ws)
       THEN /\ sockLog' = [sockLog EXCEPT ![ws] = Append(@, [frame |-> ServiceOf(t),
                                                            config |-> streamer_config])]
            /\ subPc' = [subPc EXCEPT ![t] = "sent"]
       ELSE /\ subPc' = [subPc EXCEPT ![t] = "raised"]
            /\ UNCHANGED sockLog
    /\ UNCHANGED <<ds_access_token, streamer_config, ws, recv_task, connected, sock,
                   connPc, connUrl, recvPc, nEv>>

\* DataStream.__init__, and main() having created the sub_levelone_equities task.
StreamInit ==
    /\ ds_access_token = 0
    /\ streamer_config = 0
    /\ ws = 0
    /\ recv_task = 0
    /\ connected = FALSE
    /\ sock = [k \in Sessions |-> [state |-> "none", url |-> 0, closer |-> "none"]]
    /\ sockLog = [k \in Sessions |-> << >>]
    /\ connPc = [c \in Sessions |-> "none"]
    /\ connUrl = [c \in Sessions |-> 0]
    /\ recvPc = [k \in Sessions |-> "none"]
    /\ subPc = [t \in SubTasks |-> IF t = 0 THEN "waiting" ELSE "none"]
    /\ nEv = 0
    /\ onTokPc = [k \in Sessions |-> "none"]
    /\ rxFrames = << >>
    /\ rxPublished = << >>
    /\ closedAt = [k \in Sessions |-> 0]
    /\ lastFill = NoFill

\* Frames the receive loop reads in one behaviour.
MaxFrames == 3

\* The frames the server sends after the login, by what they hold:
\*   not_json      text that json.loads rejects
\*   not_object    JSON that is not an object (raw_data.get does not exist)
\*   subs_ack      {"response": [a SUBS response with code 0]}
\*   levelone      {"data": [a LEVELONE_EQUITIES entry with one content item]}
\*   acct_fill     {"data": [an ACCT_ACTIVITY entry reporting OrderFillCompleted]}
\*   acct_other    {"data": [an ACCT_ACTIVITY entry of another order status]}
\*   other_service {"data": [an entry of a service the loop does not know]}
FrameKinds == {"not_json", "not_object", "subs_ack", "levelone", "acct_fill",
               "acct_other", "other_service"}

\* What one pass of the body of `async for msg in self.ws` does with a frame:
\* the exception that leaves the loop ("no": none) and the event it publishes.
\* Nothing in recv_streamer calls parse_account_activity_entry.
HandleFrame(kind) ==
    CASE kind = "not_json" -> [raised |-> "JSONDecodeError", event |-> "none"]
      [] kind = "not_object" -> [raised |-> "AttributeError", event |-> "none"]
      [] kind = "levelone" -> [raised |-> "no", event |-> "MarketEvent"]
      [] OTHER -> [raised |-> "no", event |-> "none"]

\* The receive loop of the current socket reads the next frame and handles it.
\* An exception the two handlers do not catch ends the task; the socket is not
\* touched by that.
RecvFrame(kind) ==
    /\ ws # 0
    /\ recvPc[ws] = "running"
    /\ sock[ws].state = "open"
    /\ Len(rxFrames) < MaxFrames
    /\ rxFrames' = Append(rxFrames, kind)
    /\ LET h == HandleFrame(kind)
       IN /\ rxPublished' = IF h.event # "none"
                            THEN Append(rxPublished, [event |-> h.event,
                                                      frame |-> Len(rxFrames) + 1])
                            ELSE rxPublished
          /\ recvPc' = IF h.raised = "no" THEN recvPc
                       ELSE [recvPc EXCEPT ![ws] = RecvEnds(h.raised)]
    /\ UNCHANGED <<ds_access_token, streamer_config, ws, recv_task, connected, sock,
                   sockLog, connPc, connUrl, subPc, nEv, onTokPc>>

\* The state once the first TokenEvent has led to an open socket: LOGIN sent,
\* the receive task running, the account-activity task waiting for the ack.
SessionOpened ==
    /\ ds_access_token = 1
    /\ streamer_config = 1
    /\ ws = 1
    /\ recv_task = 1
    /\ connected = FALSE
    /\ sock = [k \in Sessions |-> IF k = 1 THEN [state |-> "open", url |-> 1, closer |-> "none"]
                                  ELSE [state |-> "none", url |-> 0, closer |-> "none"]]
    /\ sockLog = [k \in Sessions |-> IF k = 1 THEN <<[frame |-> "LOGIN", config |-> 1]>>
                                     ELSE << >>]
    /\ connPc = [c \in Sessions |-> IF c = 1 THEN "done" ELSE "none"]
    /\ connUrl = [c \in Sessions |-> IF c = 1 THEN 1 ELSE 0]
    /\ recvPc = [k \in Sessions |-> IF k = 1 THEN "running" ELSE "none"]
    /\ subPc = [t \in SubTasks |-> IF t \in {0, 1} THEN "waiting" ELSE "none"]
    /\ nEv = 1
    /\ onTokPc = [k \in Sessions |-> IF k = 1 THEN "scheduled" ELSE "none"]
    /\ rxFrames = << >>
    /\ rxPublished = << >>
    /\ closedAt = [k \in Sessions |-> 0]
    /\ lastFill = NoFill

(***************************************************************************)
(* Specifications                                                          *)
(***************************************************************************)

InitBus == BusInit /\ QuoteInit /\ TokInit /\ ExportInit /\ StreamInit

NextBus ==
    \/ \E k \in Kinds, h \in Handlers : Subscribe(k, h) /\ UNCHANGED <<busLog, quoteVars, tokVars, exportVars, streamVars>>
    \/ \E k \in Kinds, h \in Handlers : Unsubscribe(k, h) /\ UNCHANGED <<busLog, quoteVars, tokVars, exportVars, streamVars>>
    \/ \E k \in Kinds, r \in 0..MaxSubs : Publish(k, r) /\ UNCHANGED <<busLog, quoteVars, tokVars, exportVars, streamVars>>
    \/ StartTask /\ UNCHANGED <<busLog, quoteVars, tokVars, exportVars, streamVars>>

SpecBus == InitBus /\ [][NextBus]_vars

\* The bus while handlers subscribe and events are published, with every handler
\* invocation and task start written to the log.
OrderFrame == <<quoteVars, tokVars, exportVars, streamVars>>

NextOrder ==
    \/ \E k \in Kinds, h \in Handlers : Subscribe(k, h) /\ UNCHANGED <<busLog, OrderFrame>>
    \/ \E k \in Kinds, r \in 0..MaxSubs :
          /\ Publish(k, r)
          /\ busLog' = LogPublish(busLog, lastCall')
          /\ UNCHANGED OrderFrame
    \/ /\ StartTask
       /\ busLog' = LogStart(busLog, [h |-> lastCall'.h, ev |-> lastCall'.ev])
       /\ UNCHANGED OrderFrame

SpecOrder == InitBus /\ [][NextOrder]_vars

InitQuote == BusInit /\ QuoteInit /\ TokInit /\ ExportInit /\ StreamInit

NextQuote ==
    \/ \E entry \in Entries : FrameArrives(entry) /\ UNCHANGED <<busVars, tokVars, exportVars, streamVars, mergeVars>>
    \/ ParseEntry /\ UNCHANGED <<busVars, tokVars, exportVars, streamVars, mergeVars>>

SpecQuote == InitQuote /\ [][NextQuote]_vars

\* The receive loop handling level-one entries one after the other.
NextMerge ==
    \E entry \in MergeEntries :
        RecvLevelOne(entry) /\ UNCHANGED <<busVars, tokVars, exportVars, streamVars>>

SpecMerge == InitQuote /\ [][NextMerge]_vars

\* The bus as main() wires it for TokenEvent.
InitToken ==
    /\ subscribers = [k \in Kinds |-> IF k = "TokenEvent" THEN TokenHandlers ELSE << >>]
    /\ tasks = << >>
    /\ nPub = 0
    /\ lastCall = NoCall
    /\ busLog = NoLog
    /\ QuoteInit
    /\ TokInit
    /\ ExportInit
    /\ StreamInit

TokFrame == <<subscribers, nPub, lastCall, busLog, quoteVars, exportVars, streamVars,
              sleepFor, failedCodes>>

NextToken ==
    \/ AuthConnected /\ UNCHANGED TokFrame
    \/ AuthInvalidURI /\ UNCHANGED TokFrame
    \/ AuthConnectFails /\ UNCHANGED TokFrame
    \/ \E code \in 1..NumCodes : AuthCode(code) /\ UNCHANGED TokFrame
    \/ AuthBadFrame /\ UNCHANGED TokFrame
    \/ AuthClosed /\ UNCHANGED TokFrame
    \/ AuthWake /\ UNCHANGED TokFrame
    \/ RefreshReady /\ UNCHANGED TokFrame
    \/ RefreshWake /\ UNCHANGED TokFrame

SpecToken == InitToken /\ [][NextToken]_vars

\* The token engine with the length of the refresh loop's sleeps observed, the
\* relay accepting every connection.
BudgetFrame == <<subscribers, nPub, lastCall, busLog, quoteVars, exportVars, streamVars,
                 failedCodes>>

NextBudget ==
    \/ AuthConnected /\ UNCHANGED <<BudgetFrame, sleepFor>>
    \/ \E code \in 1..NumCodes : AuthCode(code) /\ UNCHANGED <<BudgetFrame, sleepFor>>
    \/ AuthWake /\ UNCHANGED <<BudgetFrame, sleepFor>>
    \/ RefreshReady /\ UNCHANGED BudgetFrame
                    /\ sleepFor' = IF refreshPc' = "sleeping"
                                    THEN SleepLasts(token_expires_in') ELSE sleepFor
    \/ RefreshWake /\ UNCHANGED BudgetFrame
                   /\ sleepFor' = IF refreshPc' = "sleeping"
                                   THEN SleepLasts(token_expires_in') ELSE sleepFor

SpecBudget == InitToken /\ [][NextBudget]_vars

\* The code loop of the token engine with the codes whose exchange failed
\* observed; the relay accepts every connection.
CodesFrame == <<subscribers, nPub, lastCall, busLog, quoteVars, exportVars, streamVars,
                sleepFor>>

NextCodes ==
    \/ AuthConnected /\ UNCHANGED <<CodesFrame, failedCodes>>
    \/ \E code \in 1..NumCodes :
          /\ AuthCode(code)
          /\ failedCodes' = IF lastMsg'.requested /\ lastMsg'.outcome # "ok"
                            THEN failedCodes \cup {code} ELSE failedCodes
          /\ UNCHANGED CodesFrame
    \/ AuthWake /\ UNCHANGED <<CodesFrame, failedCodes>>

SpecCodes == InitToken /\ [][NextCodes]_vars

\* The token engine with its exporter, the relay accepting every connection.
ExportFrame == <<subscribers, nPub, lastCall, busLog, quoteVars, streamVars, sleepFor,
                 failedCodes>>

NextExport ==
    \/ AuthConnected /\ UNCHANGED <<ExportFrame, exportVars>>
    \/ \E code \in 1..NumCodes : AuthCode(code) /\ UNCHANGED <<ExportFrame, exportVars>>
    \/ AuthWake /\ UNCHANGED <<ExportFrame, exportVars>>
    \/ RefreshReady /\ UNCHANGED <<ExportFrame, exportVars>>
    \/ RefreshWake /\ UNCHANGED <<ExportFrame, exportVars>>
    \/ \E r \in Requests : ExportRequest(r) /\ UNCHANGED <<ExportFrame, tokVars, tasks>>
    \/ \E r \in Requests : ExportAnswer(r) /\ UNCHANGED <<ExportFrame, tokVars, tasks>>

SpecExport == InitToken /\ [][NextExport]_vars

InitStream == BusInit /\ QuoteInit /\ TokInit /\ ExportInit /\ StreamInit

StreamFrame == <<busVars, quoteVars, tokVars, exportVars, rxVars, closedAt, lastFill>>

NextStream ==
    \/ \E ok \in BOOLEAN : OnTokenEvent(ok) /\ UNCHANGED StreamFrame
    \/ \E c \in Sessions : ConnEnter(c) /\ UNCHANGED <<StreamFrame, onTokPc>>
    \/ \E c \in Sessions : ConnClosed(c) /\ UNCHANGED <<StreamFrame, onTokPc>>
    \/ \E c \in Sessions : ConnOpened(c) /\ UNCHANGED <<StreamFrame, onTokPc>>
    \/ \E c \in Sessions : ConnFails(c) /\ UNCHANGED <<StreamFrame, onTokPc>>
    \/ \E k \in Sessions : PeerCloses(k) /\ UNCHANGED <<StreamFrame, onTokPc>>
    \/ \E k \in Sessions : CloseCompletes(k) /\ UNCHANGED <<StreamFrame, onTokPc>>
    \/ \E k \in Sessions : RecvCancelled(k) /\ UNCHANGED <<StreamFrame, onTokPc>>
    \/ \E k \in Sessions : RecvLoginAck(k) /\ UNCHANGED <<StreamFrame, onTokPc>>
    \/ \E t \in SubTasks : SubSend(t) /\ UNCHANGED <<StreamFrame, onTokPc>>

SpecStream == InitStream /\ [][NextStream]_vars

\* Connections only: TokenEvents, connect_streamer tasks, sockets and receive
\* tasks, each close stamped with the number of TokenEvents delivered before it.
ReconnFrame == <<busVars, quoteVars, tokVars, exportVars, rxVars, onTokPc, lastFill>>

NextReconn ==
    \/ \E ok \in BOOLEAN : OnTokenEvent(ok) /\ UNCHANGED <<StreamFrame>>
    \/ \E c \in Sessions : ConnEnter(c) /\ UNCHANGED <<ReconnFrame, closedAt>>
    \/ \E c \in Sessions : ConnClosed(c) /\ UNCHANGED <<ReconnFrame, closedAt>>
    \/ \E c \in Sessions : ConnOpened(c) /\ UNCHANGED <<ReconnFrame, closedAt>>
    \/ \E c \in Sessions : ConnFails(c) /\ UNCHANGED <<ReconnFrame, closedAt>>
    \/ \E k \in Sessions : PeerCloses(k) /\ UNCHANGED <<ReconnFrame, closedAt>>
    \/ \E k \in Sessions : /\ CloseCompletes(k)
                            /\ closedAt' = [closedAt EXCEPT ![k] = nEv]
                            /\ UNCHANGED ReconnFrame
    \/ \E k \in Sessions : RecvCancelled(k) /\ UNCHANGED <<ReconnFrame, closedAt>>

SpecReconn == InitStream /\ [][NextReconn]_vars

\* The receive loop of an open session and the frames the server sends it.
InitRecv == BusInit /\ QuoteInit /\ TokInit /\ ExportInit /\ SessionOpened

RecvOuter == <<busVars, quoteVars, tokVars, exportVars, closedAt, lastFill>>

NextRecv ==
    \/ \E kind \in FrameKinds : RecvFrame(kind) /\ UNCHANGED RecvOuter
    \/ RecvLoginAck(1) /\ UNCHANGED <<RecvOuter, onTokPc, rxVars>>
    \/ \E t \in SubTasks : SubSend(t) /\ UNCHANGED <<RecvOuter, onTokPc, rxVars>>
    \/ PeerCloses(1) /\ UNCHANGED <<RecvOuter, onTokPc, rxVars>>
    \/ CloseCompletes(1) /\ UNCHANGED <<RecvOuter, onTokPc, rxVars>>

SpecRecv == InitRecv /\ [][NextRecv]_vars

\* The account-activity decode applied to entries.
FillFrame == <<busVars, quoteVars, tokVars, exportVars, ds_access_token, streamer_config,
               ws, recv_task, connected, sock, sockLog, connPc, connUrl, recvPc, subPc,
               nEv, onTokPc, rxVars, closedAt>>

NextFill ==
    \E entry \in AcctEntries : ParseAccountActivity(entry) /\ UNCHANGED FillFrame

SpecFill == InitStream /\ [][NextFill]_vars

(***************************************************************************)
(* Claims about the event bus, checked under SpecBus                       *)
(***************************************************************************)

\* The handler list the last call worked on, and the coroutine handlers in it.
CallList == lastCall.before[lastCall.kind]

AsyncOf(l) == SelectSeq(l, IsAsync)

AllSync(l) == \A i \in 1..Len(l) : ~IsAsync(l[i])

\* The expected step of the publish loop at a handler.
HowFor(h) == IF IsAsync(h) THEN "task" ELSE "call"

\* `tasks` is the queue before the call followed by one task per handler of `l`,
\* in order, each for the event of the last call.
QueuedThen(l) ==
    /\ Len(tasks) = Len(lastCall.queued) + Len(l)
    /\ \A j \in 1..Len(lastCall.queued) : tasks[j] = lastCall.queued[j]
    /\ \A j \in 1..Len(l) :
          tasks[Len(lastCall.queued) + j] = [h |-> l[j], ev |-> lastCall.ev]

\* C4: a publish that returns, on a kind whose handlers are all synchronous, has
\* called every entry of that kind's list exactly once, in registration order
\* (an entry registered k times is called k times), has called nothing else and
\* has scheduled no task.
C4_SyncPublishCallsEachInOrder ==
    (lastCall.op = "publish" /\ lastCall.outcome = "returned" /\ AllSync(CallList))
        => /\ Len(lastCall.trace) = Len(CallList)
           /\ \A i \in 1..Len(CallList) :
                 lastCall.trace[i] = [h |-> CallList[i], how |-> "call"]
           /\ tasks = lastCall.queued

\* C4 witness: a returned publish on <<sync_a, sync_b, sync_a>>.
C4_Witness ==
    /\ lastCall.op = "publish"
    /\ lastCall.outcome = "returned"
    /\ CallList = <<"sync_a", "sync_b", "sync_a">>
    /\ Len(lastCall.trace) = 3

\* C5: subscribe appends the handler to the list of its kind; unsubscribe removes
\* the first occurrence of the handler from the list of its kind and nothing else,
\* and changes nothing when the handler is not in that list; the lists of the
\* other kinds are untouched by both.
C5_RegistryReflectsCalls ==
    (lastCall.op \in {"subscribe", "unsubscribe"}) =>
        LET old == CallList
            new == subscribers[lastCall.kind]
            h == lastCall.h
        IN /\ \A k \in Kinds \ {lastCall.kind} : subscribers[k] = lastCall.before[k]
           /\ lastCall.op = "subscribe" => new = old \o <<h>>
           /\ lastCall.op = "unsubscribe" =>
                 IF \E i \in 1..Len(old) : old[i] = h
                 THEN \E i \in 1..Len(old) :
                         /\ old[i] = h
                         /\ \A j \in 1..(i - 1) : old[j] # h
                         /\ Len(new) = Len(old) - 1
                         /\ \A j \in 1..(i - 1) : new[j] = old[j]
                         /\ \A j \in i..Len(new) : new[j] = old[j + 1]
                 ELSE new = old

\* C5 witness: unsubscribe of a handler registered twice, with another in between.
C5_Witness ==
    /\ lastCall.op = "unsubscribe"
    /\ lastCall.h = "sync_a"
    /\ CallList = <<"sync_a", "async_c", "sync_a">>
    /\ subscribers[lastCall.kind] = <<"async_c", "sync_a">>

\* C5 witness of the no-op: unsubscribe of a handler held only by the other kind.
C5_WitnessAbsent ==
    /\ lastCall.op = "unsubscribe"
    /\ ~InList(CallList, lastCall.h)
    /\ \E k \in Kinds \ {lastCall.kind} : InList(subscribers[k], lastCall.h)

\* C6: when a publish on a list with synchronous and coroutine handlers returns,
\* every synchronous handler has been called inline, every coroutine handler has
\* been made a task exactly once, in registration order, and every one of these
\* tasks is still waiting to start.
C6_MixedPublishSchedulesAsync ==
    (/\ lastCall.op = "publish"
     /\ lastCall.outcome = "returned"
     /\ ~AllSync(CallList)
     /\ AsyncOf(CallList) # CallList)
        => /\ Len(lastCall.trace) = Len(CallList)
           /\ \A i \in 1..Len(CallList) :
                 lastCall.trace[i] = [h |-> CallList[i], how |-> HowFor(CallList[i])]
           /\ QueuedThen(AsyncOf(CallList))

\* C6 witness: a returned publish on <<async_c, sync_a, async_c>> with a task of an
\* earlier publish still queued.
C6_Witness ==
    /\ lastCall.op = "publish"
    /\ lastCall.outcome = "returned"
    /\ CallList = <<"async_c", "sync_a", "async_c">>
    /\ Len(lastCall.queued) = 1
    /\ Len(tasks) = 3

\* C7: when the synchronous handler at position r raises, publish raises, the
\* handlers before r have been called or scheduled, the handler at r has been
\* called, and no handler after r has been called or scheduled.
C7_RaiseAbortsDelivery ==
    (lastCall.op = "publish" /\ lastCall.raiser # 0)
        => /\ lastCall.outcome = "raised"
           /\ Len(lastCall.trace) = lastCall.raiser
           /\ \A i \in 1..lastCall.raiser :
                 lastCall.trace[i] = [h |-> CallList[i], how |-> HowFor(CallList[i])]
           /\ QueuedThen(AsyncOf(SubSeq(CallList, 1, lastCall.raiser - 1)))

\* C7 witness: the second of <<async_c, sync_a, async_c>> raises.
C7_Witness ==
    /\ lastCall.op = "publish"
    /\ lastCall.raiser = 2
    /\ CallList = <<"async_c", "sync_a", "async_c">>
    /\ Len(tasks) = Len(lastCall.queued) + 1

(***************************************************************************)
(* Claims about the order of delivery: SpecOrder                           *)
(***************************************************************************)

\* C27: of two events of one kind, the one published first reaches every handler
\* first: in the log of inline calls and task starts, no entry of a handler for
\* a later event of a kind comes before an entry of that handler for an earlier
\* event of that kind.
C27_DeliveredInPublishOrder ==
    \A i, j \in 1..Len(busLog.invoked) :
        (/\ i < j
         /\ busLog.invoked[i].h = busLog.invoked[j].h
         /\ busLog.kinds[busLog.invoked[i].ev] = busLog.kinds[busLog.invoked[j].ev])
            => busLog.invoked[i].ev <= busLog.invoked[j].ev

\* Two events of one kind were published before any task started: the plain
\* handler was called for both, then the coroutine handler's tasks started, the
\* one of the first event first.
C27_Witness ==
    /\ busLog.kinds = <<"MarketEvent", "MarketEvent">>
    /\ busLog.invoked = <<[h |-> "sync_a", ev |-> 1], [h |-> "sync_a", ev |-> 2],
                          [h |-> "async_c", ev |-> 1], [h |-> "async_c", ev |-> 2]>>

(***************************************************************************)
(* Claims about the quote cache, checked under SpecQuote                   *)
(***************************************************************************)

\* A value that is set and not null.
HasValue(v) == v # Absent /\ v # None

\* The entry has a content item for symbol s.
Touches(entry, s) == \E i \in 1..Len(entry.content) : entry.content[i].key = s

\* The entry carries no value for field f of symbol s: no item of s, or every item
\* of s omits the field's key (or has null for it); for the timestamp, the entry
\* has none.
EntryOmits(entry, s, f) ==
    \/ ~Touches(entry, s)
    \/ f = "symbol"
    \/ f = "timestamp" /\ entry.timestamp = None
    \/ /\ f \in StaticFields
       /\ \A i \in 1..Len(entry.content) :
             entry.content[i].key = s => entry.content[i].get[f] = None
    \/ /\ f \in MappedFields
       /\ \A i \in 1..Len(entry.content) :
             entry.content[i].key = s => entry.content[i].get[CodeOf[f]] = None

\* Parsing the waiting entry keeps every record, keeps every field of `fields` that
\* has a value set to some value, and leaves it as it is when the entry carries no
\* value for it.
ParseKeeps(fields) ==
    inbox # << >> =>
        \A s \in Symbols :
            /\ InCache(levelone_cache, s) => InCache(levelone_cache', s)
            /\ \A f \in fields :
                  HasValue(levelone_cache[s][f]) =>
                      /\ HasValue(levelone_cache'[s][f])
                      /\ EntryOmits(Head(inbox), s, f) =>
                            levelone_cache'[s][f] = levelone_cache[s][f]

\* C8 as stated: no field of a cached record, the timestamp included, is removed
\* or cleared by an update that omits it, and no record is deleted or replaced.
C8_NoFieldCleared == [][ParseKeeps(RecFields)]_vars

\* C8 as amended: the same for every field but the timestamp, which each update
\* of the symbol overwrites with the entry's timestamp (None when it has none).
C8_NoFieldButTimestampCleared ==
    [][/\ ParseKeeps(RecFields \ {"timestamp"})
       /\ inbox # << >> =>
             \A s \in Symbols :
                Touches(Head(inbox), s) =>
                    levelone_cache'[s]["timestamp"] = Head(inbox).timestamp]_vars

\* C8 witness: an entry that omits cusip and code 1 is about to be merged into a
\* record that holds both, next to a record of the other symbol.
C8_Witness ==
    /\ inbox # << >>
    /\ Touches(Head(inbox), "SGOV")
    /\ EntryOmits(Head(inbox), "SGOV", "cusip")
    /\ EntryOmits(Head(inbox), "SGOV", "bid_price")
    /\ HasValue(levelone_cache["SGOV"]["cusip"])
    /\ HasValue(levelone_cache["SGOV"]["bid_price"])
    /\ InCache(levelone_cache, "AAPL")

(***************************************************************************)
(* Claims about TokenEngine (SpecToken)                                    *)
(***************************************************************************)

\* C9: get_auth_code performs a token exchange for an inbound code message if
\* and only if its code differs from the code of the message processed before it
\* (the first message always differs), and the ready signal is set exactly when
\* some token exchange has succeeded: never before, and from the first success on.
C9_ExchangeIffNewCode ==
    /\ lastMsg.code # 0 => (lastMsg.requested <=> lastMsg.code # lastMsg.prev)
    /\ token_ready <=> lastOk # << >>

\* After an exchange succeeded and set the signal, the relay repeated the code and
\* the repeated message was skipped.
C9_Witness ==
    /\ token_ready
    /\ lastMsg.code # 0
    /\ lastMsg.code = lastMsg.prev
    /\ ~lastMsg.requested

\* C10: after every successful exchange, by either grant, the stored access
\* token and refresh token are those of the same response in every state another
\* task can run in; the step that stores them also sets the expiry budget from that
\* response and publishes exactly one TokenEvent, which carries the new access
\* token.
C10_TokensReplacedTogether ==
    /\ [](/\ lastOk = << >> => access_token = 0 /\ refresh_token = 0 /\ published = << >>
          /\ lastOk # << >> =>
                /\ access_token = lastOk[1].dict.access_token
                /\ refresh_token = lastOk[1].dict.refresh_token
                /\ published # << >>
                /\ published[Len(published)].access_token = access_token
                /\ Cardinality({i \in 1..Len(published) :
                                  published[i].access_token = access_token}) = 1)
    /\ [][lastOk' # lastOk =>
            /\ token_expires_in' = lastOk'[1].dict.expires_in - lastOk'[1].elapsed
            /\ published' = Append(published, [type |-> "TokenEvent",
                                               access_token |-> access_token'])
            /\ Len(tasks') = Len(tasks) + Len(TokenHandlers)
            /\ \A i \in 1..Len(TokenHandlers) :
                   tasks'[Len(tasks) + i] = [h |-> TokenHandlers[i], ev |-> Len(published')]
       ]_vars

\* A refresh-grant exchange has replaced the tokens of the code-grant exchange.
C10_Witness ==
    /\ refreshPc = "sleeping"
    /\ Len(published) = 2
    /\ access_token = 2
    /\ refresh_token = 2
    /\ token_expires_in = 17958

\* The refresh loop starts a sleep: its first one, or the one after an exchange of
\* its own (an exchange for an authorization code records the code).
SleepStarts ==
    /\ refreshPc' = "sleeping"
    /\ \/ refreshPc = "wait_ready"
       \/ refreshPc = "sleeping" /\ lastOk' # lastOk /\ prev_auth_code' = prev_auth_code

\* C28: a successful exchange leaves the expiry budget at the reported expires_in
\* minus the time the request took, and every sleep the refresh loop starts lasts
\* the budget held at that moment.
C28_SleepLastsTheBudget ==
    [][/\ lastOk' # lastOk =>
            token_expires_in' = lastOk'[1].dict.expires_in - lastOk'[1].elapsed
       /\ SleepStarts => sleepFor' = token_expires_in'
       /\ ~SleepStarts => sleepFor' = sleepFor
      ]_vars

\* The refresh loop has exchanged a token in a request of 4.2 s that reported 1800 s,
\* and sleeps 1795.8 s.
C28_Witness ==
    /\ refreshPc = "sleeping"
    /\ Len(published) = 2
    /\ lastOk[1].dict.expires_in = 18000
    /\ lastOk[1].elapsed = 42
    /\ token_expires_in = 17958
    /\ sleepFor = 17958

\* The relay delivers code c and the loop handles the message.
CodeDelivered(c) == authPc = "listening" /\ lastMsg' # lastMsg /\ lastMsg'.code = c

\* C34 as stated: a code whose exchange has failed is never exchanged again when it
\* is delivered again, and the ready signal is set only by the successful exchange
\* of a code that is not such a code.
C34_FailedCodeNeverExchangedAgain ==
    [][\A c \in failedCodes :
          CodeDelivered(c) =>
              /\ ~lastMsg'.requested
              /\ token_ready' = token_ready
      ]_vars

\* C34, amended: a failed exchange leaves its code recorded as the previously
\* processed code; while it is, the code delivered again (which is always after a
\* reconnect) is not exchanged and the ready signal, the tokens and the published
\* events stay as they are; the ready signal is set only by a successful exchange.
C34_FailedCodeSkippedWhileLast ==
    [][/\ lastMsg'.requested => prev_auth_code' = lastMsg'.code
       /\ \A c \in failedCodes :
             (CodeDelivered(c) /\ prev_auth_code = c) =>
                 /\ ~lastMsg'.requested
                 /\ UNCHANGED <<token_ready, access_token, refresh_token, published,
                                lastOk, prev_auth_code>>
       /\ (token_ready' /\ ~token_ready) =>
             lastMsg'.requested /\ lastMsg'.outcome = "ok" /\ lastOk' # lastOk
      ]_vars

\* The exchange for code 1 failed, the loop slept and connected again, the relay
\* sent code 1 again and no exchange was made: nothing is ready.
C34_Witness ==
    /\ failedCodes = {1}
    /\ authPc = "listening"
    /\ lastMsg = [code |-> 1, prev |-> 1, requested |-> FALSE, outcome |-> "none"]
    /\ prev_auth_code = 1
    /\ ~token_ready
    /\ published = << >>

\* The exceptions the failures the token endpoint's contract names end in: a
\* failed HTTP call (RuntimeError), a body that is not JSON or lacks a token
\* (ValueError).
ListedErrors == {"RuntimeError", "ValueError"}

\* This step is a code-grant exchange that failed in one of the listed ways.
CodeGrantFails ==
    /\ lastMsg' # lastMsg
    /\ lastMsg'.outcome \in FailedOutcomes

\* This step is a refresh-grant exchange that failed in one of the listed ways.
RefreshGrantFails ==
    /\ refreshPc = "sleeping"
    /\ refreshPc' \in ListedErrors

\* C11: a token exchange that fails because the HTTP call fails, the body is not
\* JSON or a token is missing raises to its caller (get_auth_code goes to its
\* retry section without setting the ready signal, the refresh loop ends with
\* the exception), leaves access token, refresh token and expiry budget as they
\* were and publishes no TokenEvent.
C11_FailedExchangeChangesNothing ==
    [][(CodeGrantFails \/ RefreshGrantFails) =>
         /\ access_token' = access_token
         /\ refresh_token' = refresh_token
         /\ token_expires_in' = token_expires_in
         /\ published' = published
         /\ tasks' = tasks
         /\ token_ready' = token_ready
         /\ CodeGrantFails => authPc' \in {"sleeping", "stopped"}
                               /\ retry_count' = retry_count + 1
      ]_vars

\* A refresh-grant exchange has failed in a listed way while tokens and a budget
\* were stored, after a code-grant exchange had failed too.
C11_Witness ==
    /\ refreshPc \in ListedErrors
    /\ access_token # 0
    /\ token_expires_in # NoBudget
    /\ lastMsg.outcome \in FailedOutcomes

\* C12: the refresh loop leaves its wait only once the ready signal is set,
\* whenever it sleeps or wakes the refresh token is set, and it never ends in
\* the "refresh token unset" error.
C12_RefreshTokenNeverUnset ==
    /\ refreshPc # "wait_ready" => token_ready
    /\ refreshPc = "sleeping" => refresh_token # 0
    /\ refreshPc # "unset_error"

\* C13: once the refresh loop has started its cycle it stays in it for ever (it
\* is sleeping again after every step it takes), and every refresh that
\* succeeds publishes one TokenEvent with the new access token.
C13_RefreshLoopNeverEnds ==
    [][refreshPc = "sleeping" =>
         /\ refreshPc' = "sleeping"
         /\ access_token' # access_token =>
               published' = Append(published, [type |-> "TokenEvent",
                                                access_token |-> access_token'])
      ]_vars

\* C14 as stated: after 100 consecutive failed connection attempts the loop has
\* stopped, and a run of failures never holds more than 100 attempts.
C14_StopsAfterHundredAttempts ==
    /\ failed_attempts <= max_retry
    /\ failed_attempts >= max_retry => authPc = "stopped"

\* C14 as amended: the loop gives up exactly when retry_count, which counts
\* every failure since the last connection (a failed attempt, and the loss of the
\* connection itself), exceeds 100.  A run of failures from the start holds up to
\* 101 attempts (the first and 100 retries), a run after a lost connection up to
\* 100; after the 101st failure in a row the loop has stopped.
C14_StopsAfterHundredRetries ==
    /\ retry_count <= max_retry + 1
    /\ failed_attempts <= max_retry + 1
    /\ failed_attempts <= retry_count + (IF lastErr = "InvalidURI" THEN 1 ELSE 0)
    /\ retry_count <= failed_attempts + 1
    /\ retry_count = max_retry + 1 => authPc = "stopped"
    /\ (authPc = "stopped" /\ lastErr # "InvalidURI") => retry_count = max_retry + 1
    /\ (authPc \in {"sleeping", "connecting"}) => retry_count <= max_retry

\* The loop has given up after 101 failed attempts in a row, no connection made.
C14_Witness ==
    /\ authPc = "stopped"
    /\ lastErr = "error"
    /\ failed_attempts = max_retry + 1
    /\ retry_count = max_retry + 1

\* 3^n and 2^n for the n the delays need.
Pow(b, n) == b ^ n

\* min(5 * 1.5^(k-1), 60) seconds in 1/128 s; from k = 8 on 5 * 1.5^(k-1) is
\* above 85, so the exponent is held at 10 to stay within the integers.
DelayOfRetry(k) ==
    LET n == IF k - 1 < 10 THEN k - 1 ELSE 10
        d == (5 * 128 * Pow(3, n)) \div Pow(2, n)
    IN IF d < 60 * 128 THEN d ELSE 60 * 128

C15_WitnessCap ==
    /\ authPc = "sleeping"
    /\ retry_count = 12
    /\ retry_delay = 60 * 128

\* C16: an InvalidURI from the connection attempt stops the loop at once: no
\* retry is counted, no sleep, and a stopped loop takes no further step.  Any
\* other failure of the attempt, any error while listening and any close of the
\* connection counts one retry and is followed by the backoff sleep while
\* retry_count is within max_retry, and the sleep by a new attempt.
C16_OnlyInvalidURIStops ==
    [][/\ (lastErr' = "InvalidURI" /\ lastErr # "InvalidURI") =>
             /\ authPc = "connecting"
             /\ authPc' = "stopped"
             /\ retry_count' = retry_count
             /\ retry_delay' = retry_delay
       /\ authPc = "stopped" => authPc' = "stopped"
       /\ (lastErr' \in {"error", "closed"} /\ lastErr = "none") =>
             /\ retry_count' = retry_count + 1
             /\ retry_count' <= max_retry => authPc' = "sleeping"
       /\ (authPc = "sleeping" /\ authPc' # "sleeping") => authPc' = "connecting"
       /\ (authPc \in {"connecting", "listening"} /\ authPc' \in {"sleeping", "stopped"}) =>
             lastErr' \in {"InvalidURI", "error", "closed"}
      ]_vars

\* An InvalidURI has stopped the loop in the middle of a run of retries.
C16_Witness ==
    /\ authPc = "stopped"
    /\ lastErr = "InvalidURI"
    /\ retry_count = 3
    /\ failed_attempts = 4

\* C35: every successful connection to the relay sets the retry counter to 0 and
\* the delay to 5 s; the counter goes up by one per failure and down only by a
\* connection, so it counts the failures since the last connection; the first
\* backoff after a connection sleeps 5 s; and when the loop gives up on the
\* ceiling, at least 100 connection attempts in a row have failed.
C35_ConnectionResetsBackoff ==
    [][/\ (authPc = "connecting" /\ authPc' = "listening") =>
             retry_count' = 0 /\ retry_delay' = InitialDelay
       /\ retry_count' > retry_count =>
             retry_count' = retry_count + 1 /\ lastErr' \in {"error", "closed"}
       /\ retry_count' < retry_count => authPc' = "listening"
       /\ (authPc = "listening" /\ authPc' = "sleeping") =>
             retry_count' = 1 /\ retry_delay' = InitialDelay
       /\ (authPc # "stopped" /\ authPc' = "stopped" /\ lastErr' # "InvalidURI") =>
             retry_count' = max_retry + 1 /\ failed_attempts' >= max_retry
      ]_vars

\* An exchange failed, the loop slept (the delay grew to 7.5 s) and has connected
\* again: the counter is 0 and the delay 5 s.
C35_Witness ==
    /\ authPc = "listening"
    /\ lastMsg.requested
    /\ lastMsg.outcome = "not_json"
    /\ retry_count = 0
    /\ retry_delay = InitialDelay

(***************************************************************************)
(* Claims about the token exporter (SpecExport)                            *)
(***************************************************************************)

\* C17: no request is answered before the ready signal is set (a request that
\* comes before it waits, and only such a request waits), and the answer built in
\* a step carries the access token stored at that step, which is the token of
\* the latest successful exchange, never an older one.
C17_AnswerCarriesCurrentToken ==
    [][/\ reqAnswer'.built => /\ token_ready'
                              /\ reqAnswer'.access_token # 0
                              /\ reqAnswer'.access_token <= access_token'
       /\ reqAnswer' # reqAnswer =>
             /\ token_ready
             /\ reqAnswer'.access_token = access_token
             /\ access_token = lastOk[1].dict.access_token
             /\ access_token = published[Len(published)].access_token
       /\ \A r \in Requests :
             /\ (reqPc[r] = "none" /\ reqPc'[r] = "waiting") => ~token_ready
             /\ (reqPc[r] = "waiting" /\ reqPc'[r] = "none") =>
                   reqAnswer' = [built |-> TRUE, access_token |-> access_token,
                                 waited |-> TRUE]
      ]_vars

\* A request that came after a refresh got the second token at once, while the
\* answer before it had carried the first.
C17_Witness ==
    /\ reqAnswer.access_token = 2
    /\ ~reqAnswer.waited
    /\ Len(published) = 2
    /\ refreshPc = "sleeping"

\* A request that came before the signal waited and then got the first token.
C17_WitnessWaited ==
    /\ reqAnswer.waited
    /\ reqAnswer.access_token = 1

(***************************************************************************)
(* Claims about the sessions of DataStream (SpecStream)                    *)
(***************************************************************************)

OpenSockets == {k \in Sessions : sock[k].state = "open"}

UnfinishedRecvTasks == {k \in Sessions : recvPc[k] \in {"running", "cancelling"}}

\* frame i of socket k's log is a SUBS frame
IsSubs(k, i) == sockLog[k][i].frame \in {"LEVELONE_EQUITIES", "ACCT_ACTIVITY"}

\* C1: in every state at most one socket opened by DataStream is open, and the
\* socket self.ws names is the only one that can be: whenever connect_streamer has
\* opened a new socket, the one it replaced is no longer open.
C1_AtMostOneOpenSocket ==
    /\ Cardinality(OpenSockets) <= 1
    /\ OpenSockets \subseteq {ws}

\* connect_streamer found the first socket open, closed it and opened the next.
C1_Witness ==
    \E k \in Sessions :
        /\ sock[k].state = "closed"
        /\ sock[k].closer = "connect_streamer"
        /\ ws # k
        /\ IsOpen(ws)

\* C2: in every state at most one receive task of DataStream is not finished.
C2_AtMostOneRecvTask == Cardinality(UnfinishedRecvTasks) <= 1

\* C3: on every socket, a SUBS frame is sent only after the ack of the LOGIN
\* sent on that socket was received.
C3_SubsAfterLoginAck ==
    \A k \in Sessions : \A i \in 1..Len(sockLog[k]) :
        IsSubs(k, i) => \E j \in 1..(i - 1) : sockLog[k][j].frame = "ACK"

\* The step is the handling of a TokenEvent by DataStream.
IsTokenEventStep == nEv' = nEv + 1

\* on_token_event has fetched the configuration and created a connect_streamer task.
ReconnectScheduled ==
    /\ onTokPc'[nEv'] = "scheduled"
    /\ streamer_config' = nEv'
    /\ connPc'[nEv'] = "waiting"
    /\ \A c \in Sessions : c # nEv' => connPc'[c] = connPc[c]

\* on_token_event has changed nothing but the stored access token.
OnlyTokenUpdated ==
    /\ ds_access_token' = nEv'
    /\ streamer_config' = streamer_config
    /\ connPc' = connPc

\* The session state other than the stored token and configuration is as it was.
SessionUntouched ==
    /\ ws' = ws
    /\ recv_task' = recv_task
    /\ sock' = sock
    /\ recvPc' = recvPc
    /\ sockLog' = sockLog
    /\ connected' = connected
    /\ subPc' = subPc

\* C18 as stated: handling a TokenEvent fetches the configuration and schedules a
\* reconnect exactly when there is no socket or the socket is closed, and with an
\* open socket only the stored access token changes.
C18_ReconnectIffNoSocketOrClosed ==
    [][IsTokenEventStep =>
          /\ ds_access_token' = nEv'
          /\ ReconnectScheduled <=> (ws = 0 \/ sock[ws].state = "closed")
          /\ (ws # 0 /\ sock[ws].state = "open") => OnlyTokenUpdated /\ SessionUntouched
      ]_vars

\* C18, amended: handling a TokenEvent stores the new access token; it fetches the
\* configuration exactly when there is no socket or the socket is not open
\* (closed, or closing), and schedules a reconnect exactly when that fetch
\* returns; with an open socket, and when the fetch raises, only the stored
\* access token changes.
C18_ReconnectIffNotOpenAndFetched ==
    [][IsTokenEventStep =>
          /\ ds_access_token' = nEv'
          /\ SessionUntouched
          /\ onTokPc'[nEv'] # "skipped" <=> (ws = 0 \/ sock[ws].state # "open")
          /\ onTokPc'[nEv'] = "scheduled" <=> ReconnectScheduled
          /\ onTokPc'[nEv'] # "scheduled" => OnlyTokenUpdated
      ]_vars

\* The second TokenEvent came while the socket of the first was open: socket,
\* receive task and configuration are those of the first, the token is the second.
C18_Witness ==
    /\ onTokPc[1] = "scheduled"
    /\ onTokPc[2] = "skipped"
    /\ ws = 1
    /\ IsOpen(1)
    /\ recv_task = 1
    /\ streamer_config = 1
    /\ ds_access_token = 2

(***************************************************************************)
(* Claims about the receive loop: SpecRecv                                 *)
(***************************************************************************)

\* Frames whose shape the loop does not expect.
UnexpectedFrames == {"not_json", "not_object"}

\* C19: once the receive loop has read a frame of unexpected shape it is still
\* running (it reads the frames that follow) unless the socket was closed since,
\* and the socket is not closed by the program.
C19_UnexpectedFrameIsSkipped ==
    (\E i \in 1..Len(rxFrames) : rxFrames[i] \in UnexpectedFrames) =>
        /\ recvPc[recv_task] # "raised"
        /\ sock[ws].state = "open" => recvPc[recv_task] = "running"
        /\ sock[ws].closer # "connect_streamer"

\* C20: for every frame read that holds an ACCT_ACTIVITY entry reporting a
\* completed order fill, a FillEvent of that frame has been published.
C20_FillEventPerCompletedFill ==
    \A i \in 1..Len(rxFrames) :
        rxFrames[i] = "acct_fill" =>
            \E j \in 1..Len(rxPublished) :
                rxPublished[j] = [event |-> "FillEvent", frame |-> i]

(***************************************************************************)
(* Claims about level-one entries and MarketEvents: SpecMerge              *)
(***************************************************************************)

\* The step handles one more level-one entry.
IsMergeStep == Len(mEntries') = Len(mEntries) + 1

\* The index of the last item of the content that has symbol s (0: none).
LastItemOf(content, s) ==
    IF \E i \in 1..Len(content) : content[i].key = s
    THEN CHOOSE i \in 1..Len(content) :
            /\ content[i].key = s
            /\ \A j \in (i + 1)..Len(content) : content[j].key # s
    ELSE 0

\* Record rec shows the values item carries, and the timestamp of its entry.
RecordShows(rec, timestamp, item) ==
    /\ rec["symbol"] = item.key
    /\ rec["timestamp"] = timestamp
    /\ \A c \in Codes : item.get[c] # None => rec[levelone_equities_map[c]] = item.get[c]

\* C21: handling a level-one entry with a non-empty content publishes exactly one
\* MarketEvent, whose data has one record per content item in the order of the
\* content, each showing its item's values, and the cache record of every symbol
\* of the entry is the event's last record of that symbol; an entry with an empty
\* content publishes nothing and leaves the cache as it is.
C21_OneMarketEventPerEntry ==
    [][IsMergeStep =>
         LET entry == mEntries'[Len(mEntries')]
             n == Len(entry.content)
         IN IF n = 0
            THEN mEvents' = mEvents /\ levelone_cache' = levelone_cache
            ELSE /\ Len(mEvents') = Len(mEvents) + 1
                 /\ SubSeq(mEvents', 1, Len(mEvents)) = mEvents
                 /\ LET data == mEvents'[Len(mEvents')]
                    IN /\ Len(data) = n
                       /\ \A i \in 1..n :
                             RecordShows(ViewIn(levelone_cache', data[i]),
                                         entry.timestamp, entry.content[i])
                       /\ \A sym \in Symbols :
                             IF LastItemOf(entry.content, sym) = 0
                             THEN levelone_cache'[sym] = levelone_cache[sym]
                             ELSE levelone_cache'[sym] =
                                     data[LastItemOf(entry.content, sym)].rec
      ]_vars

\* One entry with an empty content and one with two items of two symbols were
\* handled: one event, of two records.
C21_Witness ==
    /\ Len(mEntries) = 2
    /\ \E i \in 1..2 : mEntries[i].content = << >>
    /\ Len(mEvents) = 1
    /\ Len(mEvents[1]) = 2
    /\ mEvents[1][1].symbol # mEvents[1][2].symbol

\* No symbol occurs twice in the content.
NoRepeatedSymbol(content) ==
    \A i, j \in 1..Len(content) : content[i].key = content[j].key => i = j

C26_EventDataIsSnapshot ==
    \A e \in 1..Len(mEvents) : \A i \in 1..Len(mEvents[e]) :
        ViewIn(levelone_cache, mEvents[e][i]) = mEvents[e][i].rec

\* A second entry changed the cache record of the symbol of the first event,
\* whose record still holds the earlier values.
C26_Witness ==
    /\ Len(mEvents) = 2
    /\ mEvents[1][1].symbol = mEvents[2][1].symbol
    /\ mEvents[1][1].rec # levelone_cache[mEvents[1][1].symbol]
    /\ mEvents[1][1].rec["bid_price"] # levelone_cache[mEvents[1][1].symbol]["bid_price"]

\* C31: when the fetch of the streamer configuration fails in on_token_event, the
\* handler ends with that exception, no connect_streamer task is created, and the
\* socket, the receive task and the stored configuration are what they were.
C31_FailedFetchSchedulesNothing ==
    [][(IsTokenEventStep /\ onTokPc'[nEv'] = "fetch_raised") =>
          /\ \A c \in Sessions : connPc'[c] = connPc[c]
          /\ streamer_config' = streamer_config
          /\ ws' = ws /\ sock' = sock
          /\ recv_task' = recv_task /\ recvPc' = recvPc
      ]_vars

\* The fetch for the second TokenEvent failed after the first session's socket had
\* closed: no second connect task, and socket, receive task and configuration are
\* still those of the first session.
C31_Witness ==
    /\ onTokPc[1] = "scheduled"
    /\ onTokPc[2] = "fetch_raised"
    /\ connPc[2] = "none"
    /\ ws = 1
    /\ sock[1].state = "closed"
    /\ recv_task = 1
    /\ streamer_config = 1
    /\ ds_access_token = 2

\* C32: the LOGIN frame sent on a socket carries the streamer configuration whose
\* socket URL the socket was opened with.
C32_LoginMatchesSocketUrl ==
    \A k \in Sessions : \A i \in 1..Len(sockLog[k]) :
        sockLog[k][i].frame = "LOGIN" => sockLog[k][i].config = sock[k].url

\* Session k was opened after an earlier socket had been closed by the peer, and
\* its login has been acknowledged on its open socket.
LoggedInAfterDisconnect(k) ==
    /\ k = ws
    /\ IsOpen(k)
    /\ \E i \in 1..Len(sockLog[k]) : sockLog[k][i].frame = "ACK"
    /\ \E j \in Sessions : j < k /\ sock[j].state = "closed" /\ sock[j].closer = "peer"

\* C33: every session logged in after a disconnect gets the level-one subscription.
\* sub_levelone_equities (task 0) is the only sender of that frame, so once the
\* task has ended the frame is either in the session's log or is never sent: the
\* eventuality is stated for the states in which the task has ended.
C33_ResubscribedAfterReconnect ==
    \A k \in Sessions :
        (LoggedInAfterDisconnect(k) /\ subPc[0] # "waiting") =>
            \E i \in 1..Len(sockLog[k]) : sockLog[k][i].frame = "LEVELONE_EQUITIES"

\* The items of symbol s the receive loop has merged, oldest first, each with the
\* timestamp of its entry: what is left of mEntries[e] from item i on, then the
\* later entries.
RECURSIVE TouchesFrom(_, _, _)
TouchesFrom(s, e, i) ==
    IF e > Len(mEntries) THEN << >>
    ELSE IF i > Len(mEntries[e].content) THEN TouchesFrom(s, e + 1, 1)
    ELSE (IF mEntries[e].content[i].key = s
          THEN <<[timestamp |-> mEntries[e].timestamp, item |-> mEntries[e].content[i]]>>
          ELSE << >>)
         \o TouchesFrom(s, e, i + 1)

MergedItems(s) == TouchesFrom(s, 1, 1)

\* The touches that carry a value for content key k.
Carrying(t, k) == {i \in 1..Len(t) : t[i].item.get[k] # None}

\* The value of key k in the first touch that carries one; None when none does.
FirstValue(t, k) ==
    IF Carrying(t, k) = {} THEN None
    ELSE t[CHOOSE i \in Carrying(t, k) : \A j \in Carrying(t, k) : i <= j].item.get[k]

\* The value of key k in the last touch that carries one; not set when none does.
LastValue(t, k) ==
    IF Carrying(t, k) = {} THEN Absent
    ELSE t[CHOOSE i \in Carrying(t, k) : \A j \in Carrying(t, k) : i >= j].item.get[k]

\* C30: for every symbol the frames have touched, each static identity field holds
\* the first non-null value received for it, whatever later frames carried; the
\* timestamp is that of the last frame that touched the symbol; each mapped field
\* holds the value of the last frame that carried it.
C30_FirstStaticLastMapped ==
    \A s \in Symbols :
        LET t == MergedItems(s)
        IN t # << >> =>
              /\ \A f \in StaticFields : levelone_cache[s][f] = FirstValue(t, f)
              /\ levelone_cache[s]["timestamp"] = t[Len(t)].timestamp
              /\ \A c \in Codes :
                    levelone_cache[s][levelone_equities_map[c]] = LastValue(t, c)

\* Two frames have touched SGOV: the first carried cusip v1 and a bid price, the
\* second cusip v2 and no bid price; the record keeps cusip v1 and the bid price
\* and shows the second timestamp.
C30_Witness ==
    /\ Len(MergedItems("SGOV")) = 2
    /\ MergedItems("SGOV")[1].item.get["cusip"] = "v1"
    /\ MergedItems("SGOV")[2].item.get["cusip"] = "v2"
    /\ MergedItems("SGOV")[1].item.get["1"] = "v1"
    /\ MergedItems("SGOV")[2].item.get["1"] = None
    /\ MergedItems("SGOV")[1].timestamp = "t1"
    /\ MergedItems("SGOV")[2].timestamp = "t2"
    /\ levelone_cache["SGOV"]["cusip"] = "v1"
    /\ levelone_cache["SGOV"]["bid_price"] = "v1"
    /\ levelone_cache["SGOV"]["timestamp"] = "t2"

(***************************************************************************)
(* Claims about connections and receive tasks: SpecReconn                  *)
(***************************************************************************)

\* The receive task k is created and has not ended.
RecvAlive(k) == recvPc[k] \in {"running", "cancelling"}

\* C22: a receive task whose cancellation was requested ends normally when it
\* runs again, a receive task whose connection closes ends normally with the
\* close, and no receive task ever ends cancelled or with an exception.
C22_RecvEndsWithoutRaising ==
    [][\A k \in Sessions :
          /\ recvPc'[k] \notin {"cancelled", "raised"}
          /\ (RecvAlive(k) /\ ~RecvAlive(k)') => recvPc'[k] = "done"
          /\ (recvPc[k] = "cancelling" /\ recvPc'[k] # "cancelling") => recvPc'[k] = "done"
          /\ (RecvAlive(k) /\ sock[k].state # "closed" /\ sock'[k].state = "closed") =>
                recvPc'[k] = "done"
      ]_vars

\* The first receive task was cancelled by the second connect while its socket
\* was still closing, the second ended with the close of its connection.
C22_Witness ==
    /\ recvPc[1] = "done"
    /\ sock[1].state = "closing"
    /\ recvPc[2] = "done"
    /\ sock[2].state = "closed"

\* Socket c is opened in this step.
Opens(c) == sock[c].state = "none" /\ sock'[c].state = "open"

\* The receive loop of socket k has ended with the close of its connection.
EndedByClose(k) == sock[k].state = "closed" /\ recvPc[k] = "done"

\* C23 as stated: a socket is opened only by the connect of a TokenEvent that was
\* delivered after every close that ended a receive loop, and the first TokenEvent
\* delivered after such a close, the socket still being closed, schedules a
\* reconnect.
C23_NoSocketUntilNextTokenEvent ==
    [][/\ \A c \in Sessions : Opens(c) =>
             \A k \in Sessions : EndedByClose(k) => c > closedAt[k]
       /\ (IsTokenEventStep /\ ws # 0 /\ EndedByClose(ws) /\ closedAt[ws] = nEv) =>
             ReconnectScheduled
      ]_vars

\* C23, amended: the end of a receive loop opens no socket and schedules no
\* connect; a socket is opened only by a connect_streamer task that a TokenEvent
\* scheduled, one socket per such event; and a TokenEvent delivered while the
\* current socket is closed schedules a reconnect exactly when its fetch of the
\* streamer configuration returns.
C23_SocketOnlyByScheduledConnect ==
    [][/\ \A c \in Sessions : Opens(c) =>
             /\ onTokPc[c] = "scheduled"
             /\ connPc[c] = "connecting"
             /\ connPc'[c] = "done"
             /\ \A k \in Sessions : recvPc'[k] = "done" => recvPc[k] = "done"
       /\ \A k \in Sessions : (RecvAlive(k) /\ ~RecvAlive(k)') =>
             /\ connPc' = connPc
             /\ \A c \in Sessions : ~Opens(c)
       /\ (IsTokenEventStep /\ ws # 0 /\ sock[ws].state = "closed") =>
             /\ ReconnectScheduled <=> onTokPc'[nEv'] # "fetch_raised"
             /\ onTokPc'[nEv'] # "skipped"
      ]_vars

\* The peer closed the first connection, which ended its receive loop; the
\* TokenEvent delivered after that led to the second socket.
C23_Witness ==
    /\ sock[1].closer = "peer"
    /\ EndedByClose(1)
    /\ closedAt[1] = 1
    /\ onTokPc[2] = "scheduled"
    /\ ws = 2
    /\ IsOpen(2)

\* C24: at most one connect_streamer task is inside the `async with
\* self._ws_lock` block in any state, and a step that changes self.ws or
\* self.recv_task is a step of the task that holds the lock, which sets both to
\* its own socket and receive task.
C24_OneReconnectAtATime ==
    [][/\ Cardinality(LockHolders') <= 1
       /\ (ws' # ws \/ recv_task' # recv_task) =>
             \E c \in LockHolders :
                /\ LockHolders = {c}
                /\ connPc'[c] = "done"
                /\ ws' = c
                /\ recv_task' = c
      ]_vars

\* The second connect_streamer task, inside the lock, has opened its socket and
\* replaced both handles, after waiting for the first to leave the lock.
C24_Witness ==
    /\ connPc[1] = "done"
    /\ connPc[2] = "done"
    /\ sock[1].state # "none"
    /\ ws = 2
    /\ recv_task = 2

(***************************************************************************)
(* Claims about the account-activity decode: SpecFill                      *)
(***************************************************************************)

\* v = lo / 10^signScale * 10^6, missing keys read as 0: stated as
\* v * 10^signScale = lo * 10^6.
IsScaled(v, x) ==
    DecMulPow10(v, Get(x, "signScale", 0)) = DecMulPow10(Dec(Get(x, "lo", 0)), 6)

\* The completed fills of the decoded entry, in order.
CompletedFills ==
    SelectSeq(lastFill.entry.content, LAMBDA a : a.status = "OrderFillCompleted")

\* The three decoded values of every FillEvent paired with their nested values.
DecodedPairs ==
    {<<lastFill.events[i].quantity, CompletedFills[i].ExecutionQuantity>> :
        i \in 1..Len(lastFill.events)}
    \cup {<<lastFill.events[i].fill_price, CompletedFills[i].ExecutionPrice>> :
        i \in 1..Len(lastFill.events)}
    \cup {<<lastFill.events[i].commission, CompletedFills[i].ActualChargedCommissionAmount>> :
        i \in 1..Len(lastFill.events)}

\* C29 as stated: quantity, price and commission are lo / 10^signScale * 10^6 of
\* their nested value; lo=123456 with signScale=2 gives 1_234_560_000_000 (written
\* as 1_234_560_000 * 10^3); lo=0 gives 0 for every signScale.
C29_DecodeGivesThousandBillions ==
    /\ Len(lastFill.events) = Len(CompletedFills)
    /\ \A p \in DecodedPairs :
          /\ IsScaled(p[1], p[2])
          /\ (Get(p[2], "lo", 0) = 123456 /\ Get(p[2], "signScale", 0) = 2)
                => p[1] = DecMulPow10(Dec(1234560000), 3)
          /\ Get(p[2], "lo", 0) = 0 => p[1] = Dec(0)

\* C29, amended: quantity, price and commission are lo / 10^signScale * 10^6 of
\* their nested value; lo=123456 with signScale=2 gives 1_234_560_000; lo=0 gives 0
\* for every signScale.
C29_DecodeGivesBillions ==
    /\ Len(lastFill.events) = Len(CompletedFills)
    /\ \A p \in DecodedPairs :
          /\ IsScaled(p[1], p[2])
          /\ (Get(p[2], "lo", 0) = 123456 /\ Get(p[2], "signScale", 0) = 2)
                => p[1] = Dec(1234560000)
          /\ Get(p[2], "lo", 0) = 0 => p[1] = Dec(0)

\* A completed fill of quantity lo=123456 signScale=2, price lo=5 signScale=8 and
\* no commission value has been decoded.
C29_Witness ==
    /\ Len(lastFill.events) = 1
    /\ Len(lastFill.entry.content) = 1
    /\ lastFill.entry.content[1].ExecutionQuantity = [lo |-> 123456, signScale |-> 2]
    /\ lastFill.entry.content[1].ExecutionPrice = [lo |-> 5, signScale |-> 8]
    /\ lastFill.entry.content[1].ActualChargedCommissionAmount = << >>
    /\ lastFill.events[1].quantity = Dec(1234560000)
    /\ lastFill.events[1].fill_price = [m |-> 5, e |-> -2]
    /\ lastFill.events[1].commission = Dec(0)

====
